---- MODULE Spec2Model ----
(***************************************************************************)
(* Synchronization core of the local-first todo tracker.                   *)
(*                                                                         *)
(*   Local Store  : the Dexie table `todos` and its CRUD helpers           *)
(*                  (createTodo, updateTodo, deleteTodo, ...).             *)
(*   Sync Engine  : performSync (pull, merge, push) in the SuperBased      *)
(*                  client.                                                *)
(*   Remote       : the record service, as the repository's mock server    *)
(*                  implements it (stores what is pushed, stamps it with   *)
(*                  its own clock), plus writes of other devices/agents.   *)
(*                                                                         *)
(* One device is modelled in full; every other device or agent of the same *)
(* owner is the environment (RemoteWrite).  The await points of the code   *)
(* are the step boundaries of the model: local store calls may interleave  *)
(* with a running performSync.                                             *)
(*                                                                         *)
(* Stored payloads are strings.  The sync engine reads them with           *)
(* JSON.parse and the store writes them with JSON.stringify; a payload is  *)
(* modelled by the fields it carries and by the class of its text (which   *)
(* raw control characters it holds, and where), which is what JSON.parse   *)
(* and sanitizePayload depend on.                                          *)
(***************************************************************************)
EXTENDS Integers, Sequences, FiniteSets, TLC

\* ------------------------------------------------------------------ bounds

\* Timestamps (milliseconds of an ISO date) range over 1..MaxTime.
MaxTime == 3

Times == 1..MaxTime

\* `x ? new Date(x).getTime() : 0`: an absent timestamp compares as 0.
NoTime == 0

\* Record ids (16 hex characters in the code).
Ids == {"a1", "a2"}

\* The order in which the remote returns its records.
IdOrder == <<"a1", "a2">>

\* The specifications that follow one todo through its edits and syncs
\* create and write this id only.
OneId == {"a1"}

\* The domain fields of a todo (title, state, ...), taken as a whole.
Fields == {"f1"}

\* title of the placeholder returned for an unreadable payload
PlaceholderFields == "[Parse error - invalid JSON]"

ownerNpub == "npub1me"

\* localStorage superbased_device_id of this installation, and the id that
\* other devices and agents put in their records.
DeviceId == "device-1"

OtherDeviceId == "other-device"

\* ---------------------------------------------------------------- payloads

\* What a payload string looks like to JSON.parse and sanitizePayload.
\*   json                   well-formed JSON, no raw control characters
\*   lf_in_string           raw CR/LF/TAB inside a string literal (not JSON)
\*   ctl_in_string          another raw control character inside a string
\*   lf_between_tokens      JSON with raw CR/LF/TAB as whitespace between
\*                          tokens (pretty-printed; well-formed)
\*   escaped_between_tokens backslash-n / backslash-t between tokens (not
\*                          JSON)
\*   opaque                 not JSON at all (ciphertext, garbage)

\* A payload: the class of its text, and the fields its JSON carries.  Every
\* payload the model writes carries updated_at (createTodo and updateTodo
\* always set it, agents are required to), so created_at, which the code
\* consults only when updated_at is missing, is not carried; a payload with
\* neither has updated_at = NoTime.
Payload(text, fields, deleted, updated_at) ==
  [text |-> text, fields |-> fields, deleted |-> deleted,
   updated_at |-> updated_at]

OpaquePayload == Payload("opaque", "?", 0, NoTime)

\* a row without payload (`!existing.payload`)
NoPayload == [absent |-> TRUE]

\* JSON.parse(str) returns (does not throw)
JsonParses(str) == str.text \in {"json", "lf_between_tokens"}

\* str.replace(/\r\n/g,'\\n')...replace(/[\x00-\x08\x0B\x0C\x0E-\x1F]/g,'')
sanitizePayload(str) ==
  IF str = NoPayload THEN str
  ELSE [str EXCEPT !.text =
          CASE @ = "lf_in_string" -> "json"
            [] @ = "ctl_in_string" -> "json"
            [] @ = "lf_between_tokens" -> "escaped_between_tokens"
            [] OTHER -> @]

\* JSON.stringify(sensitiveData, null, 2): indented, one field per line
serializeTodoIndented(todo) ==
  Payload("lf_between_tokens", todo.fields, todo.deleted, todo.updated_at)

\* JSON.stringify(sensitiveData): control characters are always escaped
serializeTodo(todo) ==
  Payload("json", todo.fields, todo.deleted, todo.updated_at)

\* a decoding whose placeholder is an ordinary, visible todo
deserializeTodoVisiblePlaceholder(payload) ==
  IF payload = NoPayload
    THEN [fields |-> "?", deleted |-> 0, updated_at |-> NoTime]
  ELSE IF JsonParses(payload) \/ JsonParses(sanitizePayload(payload))
    THEN [fields |-> payload.fields, deleted |-> payload.deleted,
          updated_at |-> payload.updated_at]
  ELSE [fields |-> PlaceholderFields, deleted |-> 0, updated_at |-> NoTime]

\* The decoded todo, or the placeholder (deleted: 1, created_at: null, no
\* updated_at) when the payload parses neither as it is nor sanitized.
deserializeTodo(payload) ==
  IF payload = NoPayload
    THEN [fields |-> "?", deleted |-> 0, updated_at |-> NoTime]
  ELSE IF JsonParses(payload) \/ JsonParses(sanitizePayload(payload))
    THEN [fields |-> payload.fields, deleted |-> payload.deleted,
          updated_at |-> payload.updated_at]
  ELSE [fields |-> PlaceholderFields, deleted |-> 1, updated_at |-> NoTime]

\* `parsed.updated_at || parsed.created_at` (see Payload)
UpdatedOrCreated(parsed) == parsed.updated_at

\* ------------------------------------------------------------------ state

VARIABLES
  db,               \* the Dexie table: id -> row, or NoRow
  server,           \* the remote: id -> record todo_<id>, or NoRecord
  used,             \* ids generated so far (an id is never reused)
  now,              \* this device's clock
  pc,               \* where performSync is
  remoteData,       \* the fetched records: id -> record, or NoRecord
  queue,            \* records of remoteData still to be merged
  existing,         \* the merge pass's `existing` (result of db.todos.get)
  newRecordsAdded,
  recordsUpdated,
  recordsToPush,    \* id -> the push record built by the push pass, or NoRecord
  result,           \* what the last performSync returned (or threw)
  mergeLog,         \* what the last merge step did, and on what
  upc,              \* where updateTodo is
  uargs,            \* updateTodo's arguments
  existingStored,   \* updateTodo's `existingStored` (result of db.todos.get)
  quiet,            \* successive syncs completed with no local edit and no
                    \* remote change since the first of them began
  \* the page's store (app.js)
  isSyncing,
  skipNotify,       \* the argument of the syncNow call that is running
  syncStartTime,    \* its `syncStartTime`
  hasUnsyncedChanges,
  lastLocalChangeTime,
  superbasedError,
  lastSync,         \* localStorage superbased_last_sync_<owner>
  inFlight,         \* performSync calls whose caller has not resumed
  handler,          \* where the mutation handler of the page is
  \* the SyncNotifier
  lastPublishTime,
  sending,          \* publish calls past the debounce check, by their `now`
  outbox,           \* messages handed to the relay pool, by payload timestamp
  calls,            \* publish calls made, by the time of the call
  subscriptions,    \* live relay subscriptions
  onSyncNeeded,     \* whether a callback is registered
  delivered,        \* deliveries of an event by the relay (one per live subscription)
  handling,         \* handleEvent calls in flight, by event
  invoked,          \* callback invocations, by event
  \* callers of the store
  storeError,       \* what the last updateTodo call threw, if it threw
  todos,            \* the result of the last getTodosByOwner call
  \* the device identity
  localStorage,     \* localStorage, for the keys that hold a device id
  generated,        \* crypto.randomUUID() calls made by getDeviceId
  deviceIdOf,       \* the device id each user of getDeviceId holds
  \* the server-side todo service
  svcTodos,         \* the todos table of src/db.ts: id -> row, or NoRow
  svcResult,        \* what the last transitionTodoState call returned
  \* the page's upload, download and background sync handlers
  superbasedSyncStatus,
  superbasedBackgroundSyncing,
  bpc,              \* where backgroundSync is
  bfull,            \* its fullSync argument
  bsince,           \* the `since` of its fetch (NoTime: none, a full fetch)
  mpc,              \* where syncToSuperbased / downloadFromSuperbased is
  upl,              \* where uploadChanges is
  hidden,           \* document.hidden
  polling,          \* startBackgroundSync has run: interval and listener are set
  restarts,         \* restartBackgroundSync calls awaiting loadToken
  initialSync,      \* the 2 s timer of startBackgroundSync is pending
  \* the notifiers the page has replaced
  orphans,          \* live subscriptions of notifiers the page has let go of
  \* another device of the same owner
  peerDb            \* its Dexie table: id -> row, or NoRow

vars ==
  <<db, server, used, now, pc, remoteData, queue, existing,
    newRecordsAdded, recordsUpdated, recordsToPush, result, mergeLog,
    upc, uargs, existingStored, quiet,
    isSyncing, skipNotify, syncStartTime, hasUnsyncedChanges,
    lastLocalChangeTime, superbasedError, lastSync, inFlight, handler,
    lastPublishTime, sending, outbox, calls, subscriptions, onSyncNeeded,
    delivered, handling, invoked, storeError, todos,
    localStorage, generated, deviceIdOf, svcTodos, svcResult,
    superbasedSyncStatus, superbasedBackgroundSyncing, bpc, bfull, bsince,
    mpc, upl, hidden, polling, restarts, initialSync, orphans, peerDb>>

syncVars ==
  <<pc, remoteData, queue, existing, newRecordsAdded, recordsUpdated,
    recordsToPush, result, mergeLog>>

updateVars == <<upc, uargs, existingStored, storeError>>

\* the state of the handlers that the specifications further down add
legacyVars ==
  <<superbasedSyncStatus, superbasedBackgroundSyncing, bpc, bfull, bsince,
    mpc, upl, hidden, polling, restarts, initialSync>>

\* the state of the set-up of the notifier and of the owner's other device
moreVars == <<orphans, peerDb>>

restVars ==
  <<todos, localStorage, generated, deviceIdOf, svcTodos, svcResult, legacyVars,
    moreVars>>

serviceVars == <<svcTodos, svcResult>>

deviceVars == <<localStorage, generated, deviceIdOf>>

appVars ==
  <<isSyncing, skipNotify, syncStartTime, hasUnsyncedChanges,
    lastLocalChangeTime, superbasedError, lastSync, inFlight>>

notifierVars ==
  <<lastPublishTime, sending, outbox, calls, subscriptions, onSyncNeeded,
    delivered, handling, invoked>>

publishVars == <<lastPublishTime, sending, outbox, calls>>

subscribeVars == <<subscriptions, onSyncNeeded, delivered, handling, invoked>>

\* The notifications a relay may deliver on the subscription's filter: one of
\* this device, one of another app of the user, one whose content does not
\* decrypt (or is not JSON), and one of another device of this app.
Events == {"own", "otherApp", "garbled", "good"}

NoError == "null"

\* err.message of a failed request
NetworkError == "Failed to fetch"

NoRow == [absent |-> TRUE]

NoRecord == [absent |-> TRUE]

Row(owner, payload, server_updated_at) ==
  [owner |-> owner, payload |-> payload, server_updated_at |-> server_updated_at]

NoResult == [status |-> "none"]

NoLog == [kind |-> "none"]

\* localStorage.getItem of a key that is not set
NoItem == "null"

\* app.js and sync-notifier.js each declare DEVICE_ID_KEY
DEVICE_ID_KEY == "superbased_device_id"

\* a notifier that keeps its device id under a key of its own
NotifierOwnKey == "sync_notifier_device_id"

\* sync-notifier.js: const DEVICE_ID_KEY = 'superbased_device_id'
NotifierDeviceIdKey == "superbased_device_id"

StorageKeys == {DEVICE_ID_KEY, NotifierOwnKey}

\* who calls getDeviceId: performSync (and formatForSync) of app.js, and the
\* constructor of SyncNotifier, which keeps the value in this.deviceId
Callers == {"performSync", "SyncNotifier"}

\* superbasedSyncStatus: null
NoStatus == "null"

\* ids of the server-side todos table (INTEGER PRIMARY KEY)
SvcIds == {1, 2}

\* no getTodosByOwner call has returned yet
NoTodos == [absent |-> TRUE]

\* everything but the table, the remote and the ids in use
InitRest ==
  /\ now = 1
  /\ pc = "idle"
  /\ remoteData = [id \in Ids |-> NoRecord]
  /\ queue = <<>>
  /\ existing = NoRow
  /\ newRecordsAdded = 0
  /\ recordsUpdated = 0
  /\ recordsToPush = [id \in Ids |-> NoRecord]
  /\ result = NoResult
  /\ mergeLog = NoLog
  /\ upc = "idle"
  /\ uargs = NoRow
  /\ existingStored = NoRow
  /\ isSyncing = FALSE
  /\ skipNotify = FALSE
  /\ syncStartTime = NoTime
  /\ hasUnsyncedChanges = FALSE
  /\ lastLocalChangeTime = NoTime
  /\ superbasedError = NoError
  /\ inFlight = 0
  /\ handler = "none"
  /\ lastPublishTime = 0
  /\ sending = [t \in Times |-> 0]
  /\ outbox = [t \in Times |-> 0]
  /\ calls = [t \in Times |-> 0]
  /\ subscriptions = 0
  /\ onSyncNeeded = FALSE
  /\ delivered = [e \in Events |-> 0]
  /\ handling = [e \in Events |-> 0]
  /\ invoked = [e \in Events |-> 0]
  /\ storeError = NoError
  /\ todos = NoTodos
  /\ localStorage = [k \in StorageKeys |-> NoItem]
  /\ generated = 0
  /\ deviceIdOf = [c \in Callers |-> NoItem]
  /\ svcTodos = [id \in SvcIds |-> NoRow]
  /\ svcResult = NoResult
  /\ superbasedSyncStatus = NoStatus
  /\ superbasedBackgroundSyncing = FALSE
  /\ bpc = "idle"
  /\ bfull = FALSE
  /\ bsince = NoTime
  /\ mpc = "idle"
  /\ upl = "idle"
  /\ hidden = FALSE
  /\ polling = FALSE
  /\ restarts = 0
  /\ initialSync = FALSE
  /\ orphans = 0
  /\ peerDb = [id \in Ids |-> NoRow]

\* a new installation and an empty remote
InitStore ==
  /\ db = [id \in Ids |-> NoRow]
  /\ server = [id \in Ids |-> NoRecord]
  /\ used = {}
  /\ InitRest

\* runs of undisturbed syncs are not tracked
Init == InitStore /\ quiet = "off" /\ lastSync = NoTime

\* runs of undisturbed syncs are tracked
InitQuiet == InitStore /\ quiet = "none" /\ lastSync = NoTime

\* ------------------------------------------------------------ local store

\* Any local mutation or remote change ends a run of undisturbed syncs.
Disturb == quiet' = IF quiet = "off" THEN "off" ELSE "none"

\* createTodo: put({id, owner, payload}); no server_updated_at yet
createTodo(id, fields) ==
  /\ id \notin used
  /\ db[id] = NoRow
  /\ db' = [db EXCEPT ![id] =
              Row(ownerNpub,
                  serializeTodo([fields |-> fields, deleted |-> 0,
                                 updated_at |-> now]),
                  NoTime)]
  /\ used' = used \cup {id}
  /\ Disturb
  /\ UNCHANGED <<restVars, server, now, syncVars, updateVars,
               appVars, notifierVars>>

\* The patches the callers pass to updateTodo: domain fields (an edit, a
\* state transition with its done flag) or the soft-delete flag.
Updates == {[fields |-> f] : f \in Fields} \cup {[deleted |-> 1]}

\* { ...existing, ...updates, updated_at: now }
ApplyUpdates(todo, updates, t) ==
  [fields |-> IF "fields" \in DOMAIN updates THEN updates.fields ELSE todo.fields,
   deleted |-> IF "deleted" \in DOMAIN updates THEN updates.deleted ELSE todo.deleted,
   updated_at |-> t]

\* updateTodo as it was before server_updated_at was carried over
updateTodoRowLosingWatermark(read, updates, t) ==
  Row(read.owner,
      serializeTodo(ApplyUpdates(deserializeTodo(read.payload), updates, t)),
      NoTime)

\* updateTodo after `await db.todos.get(id)`: decode, patch, re-encode and
\* copy server_updated_at forward from the row that was read.
updateTodoRow(read, updates, t) ==
  Row(read.owner,
      serializeTodo(ApplyUpdates(deserializeTodo(read.payload), updates, t)),
      IF read.server_updated_at # NoTime THEN read.server_updated_at ELSE NoTime)

\* an updateTodo that returns quietly when the record is not there
updateTodoMissingIgnored == NoError

\* `if (!existingStored) throw new Error('Todo not found')`
updateTodoMissing == "Todo not found"

\* updateTodo, up to the resolution of db.todos.get: the row is kept for the
\* rest of the call; for an unknown id the call throws and is over.
updateTodoGet(id, updates) ==
  /\ upc = "idle"
  /\ IF db[id] = NoRow
       THEN /\ storeError' = updateTodoMissing
            /\ uargs' = [id |-> id, updates |-> updates]
            /\ UNCHANGED <<existingStored, upc, quiet>>
       ELSE /\ existingStored' = db[id]
            /\ uargs' = [id |-> id, updates |-> updates]
            /\ upc' = "put"
            /\ storeError' = NoError
            /\ Disturb
  /\ UNCHANGED <<restVars, db, server, used, now, syncVars,
               appVars, notifierVars>>

\* updateTodo, from there to db.todos.put(encryptedTodo)
updateTodoPut ==
  /\ upc = "put"
  /\ db' = [db EXCEPT ![uargs.id] = updateTodoRow(existingStored, uargs.updates, now)]
  /\ upc' = "idle"
  /\ uargs' = NoRow
  /\ existingStored' = NoRow
  /\ Disturb
  /\ UNCHANGED <<restVars, server, used, now, syncVars, storeError,
               appVars, notifierVars>>

\* getTodosByOwner: the todos the page lists (and so lets the user act on)
Listed(id) == db[id] # NoRow /\ deserializeTodo(db[id].payload).deleted = 0

\* an edit of the domain fields (updateTodoField -> updateTodo)
updateTodoField(id, fields) == Listed(id) /\ updateTodoGet(id, [fields |-> fields])

\* transitionTodoState(id, newState) -> updateTodo(id, {state, done})
transitionTodoState(id, newState) == Listed(id) /\ updateTodoGet(id, [fields |-> newState])

\* deleteTodo(id, hard): db.todos.delete(id), or updateTodo(id, {deleted: 1})
deleteTodo(id, hard) ==
  IF hard
    THEN /\ db[id] # NoRow
         /\ db' = [db EXCEPT ![id] = NoRow]
         /\ Disturb
         /\ UNCHANGED <<restVars, server, used, now, syncVars, updateVars,
                      appVars, notifierVars>>
    ELSE Listed(id) /\ updateTodoGet(id, [deleted |-> 1])

\* ------------------------------------------------------------------ clocks

Tick ==
  /\ now < MaxTime
  /\ now' = now + 1
  /\ UNCHANGED <<restVars, db, server, used, syncVars, updateVars, quiet,
                 appVars, notifierVars, handler>>

\* ------------------------------------------------------------------ remote

\* A record as the remote holds and returns it: the payload, the
\* remote-assigned updated_at, and the metadata the merge pass reads.
Record(encrypted_data, updated_at, device_id, owner) ==
  [encrypted_data |-> encrypted_data, updated_at |-> updated_at,
   device_id |-> device_id, owner |-> owner]

\* A record of a push batch: no updated_at of the remote's yet, and the
\* metadata.updated_at the push pass adds (which no code reads back).
PushRecord(encrypted_data, device_id, owner, metadata_updated_at) ==
  [encrypted_data |-> encrypted_data, device_id |-> device_id, owner |-> owner,
   metadata_updated_at |-> metadata_updated_at]

\* A record whose record_id is not todo_<id> (formatEncryptedTodosForSync
\* writes todo-<id>; an agent may write any string).  The model keeps it in
\* the slot of an id for which there is no record todo_<id> and no local row.
MalformedRecord(encrypted_data, updated_at, device_id, owner) ==
  [encrypted_data |-> encrypted_data, updated_at |-> updated_at,
   device_id |-> device_id, owner |-> owner, record_id |-> "todo-x"]

\* the record's record_id is the string todo_<id> of its slot
IsTodoRecordId(record) == "record_id" \notin DOMAIN record

\* a pattern that accepts any prefix before the id
recordIdMatchAnyPrefix(record) == TRUE

\* record.record_id.match(/^todo_([a-f0-9]+)$/i)
recordIdMatch(record) == IsTodoRecordId(record)

\* serverRecords.get(`todo_${id}`) on the map built from the fetched records
serverRecordsGet(fetched, id) ==
  IF fetched[id] # NoRecord /\ IsTodoRecordId(fetched[id]) THEN fetched[id] ELSE NoRecord

\* The remote's clock is its own: a stamp is any time not before the stamps
\* the remote has already given.
ServerStamps(records) ==
  {t \in Times : \A id \in Ids : records[id] # NoRecord => t >= records[id].updated_at}

\* MockSuperBasedServer.syncRecords: store each record of the batch, stamped
\* with the remote's own time.
serverSyncRecords(records, batch, stamp) ==
  [id \in Ids |->
     IF batch[id] # NoRecord
       THEN Record(batch[id].encrypted_data, stamp, batch[id].device_id,
                   batch[id].owner)
       ELSE records[id]]

\* What another device or an agent may store as encrypted_data.  Its own
\* clock wrote the payload's updated_at: not after any stamp of the remote
\* (1), or not before any (MaxTime).
RemoteTexts == {"json", "lf_in_string", "lf_between_tokens"}

\* the domain fields another device writes
RemoteFields == "r1"

RemotePayloads ==
  {Payload("json", RemoteFields, 0, t) : t \in {1, MaxTime}}
    \cup {Payload(tx, RemoteFields, 0, 1) : tx \in RemoteTexts}
    \cup {OpaquePayload}

\* Another device (or an agent) of the owner pushes a record: one it knows
\* from the remote, or one it has created itself.  performSync reads the
\* remote when the fetch resolves and writes it when the push resolves, and
\* neither in between: a write of another device is taken before the call
\* (which covers the fetch in flight), or after the merge and batch are done,
\* when the push is in flight (which covers the merge pass), or after the
\* return.  A write to a record of the batch in flight either lands before
\* the batch, which then replaces it (the remote keeps the last write), or
\* after it, which is a write after the return.
RemoteWrite(id, payload, stamp) ==
  /\ pc = "idle" \/ (pc = "push" /\ recordsToPush[id] = NoRecord)
  /\ server[id] # NoRecord \/ id \notin used
  /\ stamp \in ServerStamps(server)
  /\ server' = [server EXCEPT ![id] =
                  Record(payload, stamp, OtherDeviceId, ownerNpub)]
  /\ used' = used \cup {id}
  /\ Disturb
  /\ UNCHANGED <<restVars, db, now, syncVars, updateVars,
                 appVars, notifierVars, handler>>

\* Another writer stores a record under a record_id that is not todo_<id>.
RemoteWriteMalformed(id, payload, stamp) ==
  /\ pc = "idle" \/ pc = "push"
  /\ db[id] = NoRow
  /\ server[id] = NoRecord \/ ~IsTodoRecordId(server[id])
  /\ server[id] # NoRecord \/ id \notin used
  /\ stamp \in ServerStamps(server)
  /\ server' = [server EXCEPT ![id] =
                  MalformedRecord(payload, stamp, OtherDeviceId, ownerNpub)]
  /\ used' = used \cup {id}
  /\ Disturb
  /\ UNCHANGED <<restVars, db, now, syncVars, updateVars,
                 appVars, notifierVars, handler>>

\* ------------------------------------------------------------- performSync

\* new Date(x).getTime() of a timestamp, or 0 when it is absent
TimeOf(x) == IF x # NoTime THEN x ELSE 0

\* a pending-edits check that is never positive
localNeverPending(row, localServerTime) == FALSE

\* a pending-edits check whose catch block reports "no pending changes"
localPendingFailOpen(row, localServerTime) ==
  IF row.payload = NoPayload \/ ~JsonParses(row.payload) THEN FALSE
  ELSE LET localUpdatedAt == row.payload.updated_at
       IN  IF localUpdatedAt # NoTime
             THEN localUpdatedAt > localServerTime
             ELSE FALSE

\* the merge pass's pending-edits check on the row it read
localHasPendingChanges(row, localServerTime) ==
  IF row.payload = NoPayload THEN FALSE
  ELSE IF ~JsonParses(row.payload) THEN TRUE   \* catch: assume pending
  ELSE LET localUpdatedAt == UpdatedOrCreated(row.payload)
       IN  IF localUpdatedAt # NoTime
             THEN TimeOf(localUpdatedAt) > localServerTime
             ELSE FALSE

\* What the merge pass does with a fetched record, given the row it read:
\*   add      no local row: put the remote record
\*   advance  own echo, newer: update server_updated_at only
\*   echo     own echo, not newer: nothing
\*   take     remote newer and no pending local changes: put the remote record
\*   skip     otherwise: nothing
MergeDecision(row, record) ==
  IF row = NoRow THEN "add"
  ELSE LET localServerTime == TimeOf(row.server_updated_at)
           remoteServerTime == TimeOf(record.updated_at)
       IN  IF record.device_id = DeviceId
             THEN IF record.updated_at # NoTime /\ remoteServerTime > localServerTime
                    THEN "advance" ELSE "echo"
           ELSE IF remoteServerTime > localServerTime
                   /\ ~localHasPendingChanges(row, localServerTime)
             THEN "take"
           ELSE "skip"

\* the row the merge pass puts for a fetched record
RemoteRow(record) ==
  Row(IF record.owner # "" THEN record.owner ELSE ownerNpub,
      sanitizePayload(record.encrypted_data),
      record.updated_at)

\* a merge pass whose echo branch puts the fetched record
MergeWriteEchoReplaces(table, id, decision, record) ==
  IF decision \in {"add", "take", "advance"}
    THEN [table EXCEPT ![id] = RemoteRow(record)]
    ELSE table

\* a merge pass that leaves a record without a local row alone
MergeWriteKeepsDeleted(table, id, decision, record) ==
  CASE decision = "take" -> [table EXCEPT ![id] = RemoteRow(record)]
    [] decision = "advance" ->
         IF table[id] = NoRow THEN table
         ELSE [table EXCEPT ![id].server_updated_at = record.updated_at]
    [] OTHER -> table

\* The table after the merge pass has acted on `record` for `id`.
\* db.todos.update changes one field of the row that is there (if any).
MergeWrite(table, id, decision, record) ==
  CASE decision \in {"add", "take"} -> [table EXCEPT ![id] = RemoteRow(record)]
    [] decision = "advance" ->
         IF table[id] = NoRow THEN table
         ELSE [table EXCEPT ![id].server_updated_at = record.updated_at]
    [] OTHER -> table

\* a run of undisturbed syncs: none -> first -> done1 -> second -> done2
QuietStart ==
  CASE quiet = "off" -> "off"
    [] quiet = "none" -> "first"
    [] OTHER -> "second"

QuietDone ==
  CASE quiet = "first" -> "done1"
    [] quiet = "second" -> "done2"
    [] OTHER -> quiet

ResetLocals ==
  /\ remoteData' = [id \in Ids |-> NoRecord]
  /\ queue' = <<>>
  /\ existing' = NoRow
  /\ newRecordsAdded' = 0
  /\ recordsUpdated' = 0
  /\ recordsToPush' = [id \in Ids |-> NoRecord]
  /\ mergeLog' = NoLog

\* performSync is called: client.fetchRecords({}) is in flight
SyncStart ==
  /\ pc = "idle"
  /\ pc' = "fetch"
  /\ result' = NoResult
  /\ quiet' = QuietStart
  /\ UNCHANGED <<restVars, db, server, used, now, remoteData, queue, existing,
                 newRecordsAdded, recordsUpdated, recordsToPush, mergeLog,
                 updateVars,
                 appVars, notifierVars, handler>>

\* The fetch returns every record the remote holds.  The merge loop passes
\* over a record whose record_id does not match (`if (!match) continue`)
\* without awaiting anything: the queue holds the records it stops at.
FetchOk ==
  /\ pc = "fetch"
  /\ remoteData' = server
  /\ queue' = SelectSeq(IdOrder, LAMBDA id : server[id] # NoRecord
                                              /\ recordIdMatch(server[id]))
  /\ newRecordsAdded' = 0
  /\ recordsUpdated' = 0
  /\ pc' = IF queue' = <<>> THEN "collect" ELSE "get"
  /\ UNCHANGED <<restVars, db, server, used, now, existing, recordsToPush,
                 result, mergeLog, updateVars, quiet,
                 appVars, notifierVars, handler>>

\* a fetch whose failure is taken for an empty answer
FetchFailAsEmpty ==
  /\ pc = "fetch"
  /\ pc' = "collect"
  /\ UNCHANGED <<restVars, db, server, used, now, remoteData, queue, existing,
                 newRecordsAdded, recordsUpdated, recordsToPush, result,
                 mergeLog, updateVars, quiet, appVars, notifierVars, handler>>

\* the fetch fails (network error, HTTP error): performSync throws
FetchFail ==
  /\ pc = "fetch"
  /\ pc' = "done"
  /\ result' = [status |-> "error", message |-> NetworkError, call |-> "fetchRecords"]
  /\ Disturb
  /\ UNCHANGED <<restVars, db, server, used, now, remoteData, queue, existing,
                 newRecordsAdded, recordsUpdated, recordsToPush, mergeLog,
                 updateVars,
                 appVars, notifierVars, handler>>

\* merge pass: `existing = await db.todos.get(localId)`
MergeGet ==
  /\ pc = "get"
  /\ existing' = db[Head(queue)]
  /\ pc' = "put"
  /\ UNCHANGED <<restVars, db, server, used, now, remoteData, queue,
                 newRecordsAdded, recordsUpdated, recordsToPush, result,
                 mergeLog, updateVars, quiet,
                 appVars, notifierVars, handler>>

\* merge pass: decide on the row read, write, count, go to the next record
MergePut ==
  /\ pc = "put"
  /\ LET id == Head(queue)
         record == remoteData[id]
         decision == MergeDecision(existing, record)
     IN  /\ db' = MergeWrite(db, id, decision, record)
         /\ newRecordsAdded' = newRecordsAdded + (IF decision = "add" THEN 1 ELSE 0)
         /\ recordsUpdated' = recordsUpdated + (IF decision = "take" THEN 1 ELSE 0)
         /\ mergeLog' =
              [kind |-> decision, id |-> id,
               parsed |-> existing # NoRow /\ existing.payload # NoPayload
                            /\ JsonParses(existing.payload),
               pending |-> existing # NoRow
                            /\ localHasPendingChanges(existing, TimeOf(existing.server_updated_at)),
               newer |-> existing # NoRow
                            /\ TimeOf(record.updated_at) > TimeOf(existing.server_updated_at)]
  /\ queue' = Tail(queue)
  /\ existing' = NoRow
  /\ pc' = IF Tail(queue) = <<>> THEN "collect" ELSE "get"
  /\ UNCHANGED <<restVars, server, used, now, remoteData, recordsToPush,
                 result, updateVars, quiet,
                 appVars, notifierVars, handler>>

\* push pass: the updated_at the push pass reads from a local payload
\* (the current time when the payload does not parse)
PushUpdatedAt(payload, t) ==
  IF payload # NoPayload /\ JsonParses(payload) THEN UpdatedOrCreated(payload) ELSE t

\* a push pass that only sends what the remote does not have
ShouldPushOnlyMissing(row, serverRecord, t) == serverRecord = NoRecord

\* a push pass that also sends a row whose updated_at equals the fetched one
ShouldPushOnTie(row, serverRecord, t) ==
  \/ serverRecord = NoRecord
  \/ TimeOf(PushUpdatedAt(row.payload, t)) >= TimeOf(serverRecord.updated_at)

\* push pass: `!serverRecord || localTime > serverTime`
ShouldPush(row, serverRecord, t) ==
  \/ serverRecord = NoRecord
  \/ TimeOf(PushUpdatedAt(row.payload, t)) > TimeOf(serverRecord.updated_at)

\* push pass: the batch, built from all local rows of the owner
PushBatch(table, fetched, t) ==
  [id \in Ids |->
     IF /\ table[id] # NoRow
        /\ table[id].owner = ownerNpub
        /\ ShouldPush(table[id], serverRecordsGet(fetched, id), t)
       THEN PushRecord(table[id].payload, DeviceId, table[id].owner,
                       PushUpdatedAt(table[id].payload, t))
       ELSE NoRecord]

BatchIds(batch) == {id \in Ids : batch[id] # NoRecord}

SyncResult(pushed) ==
  [status |-> "ok", pushed |-> pushed, pulled |-> newRecordsAdded,
   updated |-> recordsUpdated]

\* push pass: read the local rows and build the batch; with nothing to push
\* performSync returns
PushCollect ==
  /\ pc = "collect"
  /\ LET batch == PushBatch(db, remoteData, now)
     IN  IF BatchIds(batch) = {}
           THEN /\ result' = SyncResult(0)
                /\ pc' = "done"
                /\ quiet' = QuietDone
                /\ ResetLocals
           ELSE /\ recordsToPush' = batch
                /\ pc' = "push"
                /\ UNCHANGED <<remoteData, queue, existing, newRecordsAdded,
                               recordsUpdated, result, mergeLog, quiet>>
  /\ UNCHANGED <<restVars, db, server, used, now, updateVars,
                 appVars, notifierVars, handler>>

\* a push step that sets the watermark of what it pushed
AfterPushBumpsWatermark(table, batch, stamp) ==
  [id \in Ids |->
     IF batch[id] # NoRecord /\ table[id] # NoRow
       THEN [table[id] EXCEPT !.server_updated_at = stamp]
       ELSE table[id]]

\* The table after client.syncRecords has resolved: performSync goes on to
\* its return statement and writes no row.
AfterPush(table, batch, stamp) == table

\* client.syncRecords(recordsToPush) succeeds: the remote stores the batch;
\* performSync returns.
PushOk(stamp) ==
  /\ pc = "push"
  /\ stamp \in ServerStamps(server)
  /\ server' = serverSyncRecords(server, recordsToPush, stamp)
  /\ db' = AfterPush(db, recordsToPush, stamp)
  /\ result' = SyncResult(Cardinality(BatchIds(recordsToPush)))
  /\ pc' = "done"
  /\ quiet' = QuietDone
  /\ ResetLocals
  /\ UNCHANGED <<restVars, used, now, updateVars,
                 appVars, notifierVars, handler>>

\* client.syncRecords fails: performSync throws
PushFail ==
  /\ pc = "push"
  /\ result' = [status |-> "error", message |-> NetworkError, call |-> "syncRecords"]
  /\ pc' = "done"
  /\ Disturb
  /\ ResetLocals
  /\ UNCHANGED <<restVars, db, server, used, now, updateVars,
                 appVars, notifierVars, handler>>

\* the caller of performSync resumes with what it returned or threw
SyncReturn ==
  /\ pc = "done"
  /\ pc' = "idle"
  /\ result' = NoResult
  /\ UNCHANGED <<restVars, db, server, used, now, remoteData, queue, existing,
                 newRecordsAdded, recordsUpdated, recordsToPush, mergeLog,
                 updateVars, quiet,
                 appVars, notifierVars, handler>>

\* ------------------------------------------------------------ specification

Next ==
  \/ \E id \in OneId, f \in Fields : createTodo(id, f) /\ UNCHANGED handler
  \/ \E id \in OneId, f \in Fields : updateTodoField(id, f) /\ UNCHANGED handler
  \/ \E id \in OneId, f \in Fields : transitionTodoState(id, f) /\ UNCHANGED handler
  \/ \E id \in OneId, hard \in BOOLEAN : deleteTodo(id, hard) /\ UNCHANGED handler
  \/ updateTodoPut /\ UNCHANGED handler
  \/ Tick
  \/ \E id \in OneId, p \in RemotePayloads, stamp \in Times : RemoteWrite(id, p, stamp)
  \/ SyncStart
  \/ FetchOk
  \/ FetchFail
  \/ MergeGet
  \/ MergePut
  \/ PushCollect
  \/ \E stamp \in Times : PushOk(stamp)
  \/ PushFail
  \/ SyncReturn

Spec == Init /\ [][Next]_vars

SpecQuiet == InitQuiet /\ [][Next]_vars


\* ------------------------------------------------------------ SyncNotifier

DEBOUNCE_MS == 2000

\* publish calls made at one reading of the clock
MaxCalls == 3

\* relay subscriptions opened and not closed
MaxSubs == 2

\* Date.now() at clock reading t: a reading is a second, the epoch is long past
DateNow(t) == 1000000 + (t * 1000)

\* a publish that has no debounce
publishAlwaysPasses(nowMs, last) == TRUE

\* publish: `now - this.lastPublishTime < DEBOUNCE_MS` returns false
publishPasses(nowMs, last) == ~(nowMs - last < DEBOUNCE_MS)

\* publish(), up to its first await: the debounce check and the stamp
publishCall ==
  IF publishPasses(DateNow(now), lastPublishTime)
    THEN /\ lastPublishTime' = DateNow(now)
         /\ sending' = [sending EXCEPT ![now] = @ + 1]
    ELSE UNCHANGED <<lastPublishTime, sending>>

\* publish() is called
publish ==
  /\ calls[now] < MaxCalls
  /\ calls' = [calls EXCEPT ![now] = @ + 1]
  /\ publishCall
  /\ UNCHANGED <<restVars, db, server, used, now, syncVars, updateVars, quiet, appVars,
                 handler, outbox, subscribeVars>>

\* publish(), from there on: the event with payload.timestamp = t is
\* encrypted, signed and handed to relayPool.publish
publishSend(t) ==
  /\ sending[t] > 0
  /\ sending' = [sending EXCEPT ![t] = @ - 1]
  /\ outbox' = [outbox EXCEPT ![t] = @ + 1]
  /\ UNCHANGED <<restVars, db, server, used, now, syncVars, updateVars, quiet, appVars,
                 handler, lastPublishTime, calls, subscribeVars>>

\* startSubscription(callback): the callback is kept and one more relay
\* subscription is opened
startSubscription ==
  /\ subscriptions < MaxSubs
  /\ onSyncNeeded' = TRUE
  /\ subscriptions' = subscriptions + 1
  /\ UNCHANGED <<restVars, db, server, used, now, syncVars, updateVars, quiet, appVars,
                 handler, publishVars, delivered, handling, invoked>>

\* the relay delivers an event matching the filter: `onevent` of every live
\* subscription starts a handleEvent call
relayDeliver(e) ==
  /\ subscriptions > 0
  /\ delivered[e] = 0
  /\ delivered' = [delivered EXCEPT ![e] = subscriptions]
  /\ handling' = [handling EXCEPT ![e] = @ + subscriptions]
  /\ UNCHANGED <<restVars, db, server, used, now, syncVars, updateVars, quiet, appVars,
                 handler, publishVars, subscriptions, onSyncNeeded, invoked>>

\* a handleEvent that only drops what it cannot decrypt
handleEventDropsGarbledOnly(e) == e = "garbled"

\* handleEvent: decryption throws, payload.deviceId === this.deviceId, or
\* payload.appNpub !== this.appNpub
handleEventDrops(e) == e \in {"garbled", "own", "otherApp"}

\* handleEvent(event), after its awaits
handleEvent(e) ==
  /\ handling[e] > 0
  /\ handling' = [handling EXCEPT ![e] = @ - 1]
  /\ invoked' = IF ~handleEventDrops(e) /\ onSyncNeeded
                  THEN [invoked EXCEPT ![e] = @ + 1]
                  ELSE invoked
  /\ UNCHANGED <<restVars, db, server, used, now, syncVars, updateVars, quiet, appVars,
                 handler, publishVars, subscriptions, onSyncNeeded, delivered>>

\* stopSubscription: every subscription is closed and the callback dropped
stopSubscription ==
  /\ subscriptions' = 0
  /\ onSyncNeeded' = FALSE
  /\ UNCHANGED <<restVars, db, server, used, now, syncVars, updateVars, quiet, appVars,
                 handler, publishVars, delivered, handling, invoked>>

NextPublish ==
  \/ publish
  \/ \E t \in Times : publishSend(t)
  \/ Tick

SpecPublish == Init /\ [][NextPublish]_vars

NextSubscribe ==
  \/ startSubscription
  \/ \E e \in Events : relayDeliver(e)
  \/ \E e \in Events : handleEvent(e)
  \/ stopSubscription

SpecSubscribe == Init /\ [][NextSubscribe]_vars


\* ------------------------------------------------------ the page (app.js)

\* a syncNow that starts whatever is running
syncNowNeverBusy(flag) == FALSE

\* syncNow: `if (this.isSyncing) return;`
syncNowBusy(flag) == flag

\* syncNow(skipNotify), up to `await performSync(client, npub)`: the call
\* passes no lastSyncTime, and performSync fetches with fetchRecords({})
syncNow(skip) ==
  IF syncNowBusy(isSyncing)
    THEN UNCHANGED <<isSyncing, skipNotify, syncStartTime, inFlight, syncVars, quiet>>
    ELSE /\ isSyncing' = TRUE
         /\ skipNotify' = skip
         /\ syncStartTime' = now
         /\ inFlight' = inFlight + 1
         /\ pc' = "fetch"
         /\ result' = NoResult
         /\ quiet' = QuietStart
         /\ ResetLocals

\* the subscription's callback: `await this.syncNow(true)`
onNotified ==
  /\ syncNow(TRUE)
  /\ UNCHANGED <<restVars, db, server, used, now, updateVars, hasUnsyncedChanges,
                 lastLocalChangeTime, superbasedError, lastSync, handler,
                 notifierVars>>

\* the poll timer: `if (client && !this.isSyncing) this.syncNow(true)`
pollTimer ==
  /\ IF ~isSyncing
       THEN syncNow(TRUE)
       ELSE UNCHANGED <<isSyncing, skipNotify, syncStartTime, inFlight, syncVars, quiet>>
  /\ UNCHANGED <<restVars, db, server, used, now, updateVars, hasUnsyncedChanges,
                 lastLocalChangeTime, superbasedError, lastSync, handler,
                 notifierVars>>

\* the user saves the token: the error is cleared, the client is set up and
\* `this.syncNow()` is called
saveSuperBasedToken ==
  /\ superbasedError' = NoError
  /\ syncNow(FALSE)
  /\ UNCHANGED <<restVars, db, server, used, now, updateVars, hasUnsyncedChanges,
                 lastLocalChangeTime, lastSync, handler, notifierVars>>

\* addTodo, up to the resolution of createTodo
addTodo(id, fields) ==
  /\ handler = "none"
  /\ createTodo(id, fields)
  /\ handler' = "after"

\* updateTodoField / transitionState / deleteTodoItem of the page, up to the
\* store's db.todos.get
editTodo(id, updates) ==
  /\ handler = "none"
  /\ Listed(id)
  /\ updateTodoGet(id, updates)
  /\ handler' = "store"

\* ... up to the resolution of the store's updateTodo
editTodoPut ==
  /\ handler = "store"
  /\ updateTodoPut
  /\ handler' = "after"

\* the rest of a mutation handler: the indicator, the time of the change and
\* `if (client && !this.isSyncing) this.syncNow()`
afterMutation ==
  /\ handler = "after"
  /\ handler' = "none"
  /\ hasUnsyncedChanges' = TRUE
  /\ lastLocalChangeTime' = now
  /\ IF ~isSyncing
       THEN syncNow(FALSE)
       ELSE UNCHANGED <<isSyncing, skipNotify, syncStartTime, inFlight, syncVars, quiet>>
  /\ UNCHANGED <<restVars, db, server, used, now, updateVars, superbasedError, lastSync,
                 notifierVars>>

\* a page that shows the error of every sync
ErrorShownAlways(skip) == TRUE

\* syncNow's catch: `if (!skipNotify) this.superbasedError = err.message`
ErrorShown(skip) == ~skip

\* a page that notifies after every sync of its own
ShouldNotifyAlways(res, skip) == ~skip

\* syncNow: `!skipNotify && this.syncNotifier && result.pushed > 0`, reached
\* only when performSync has returned
ShouldNotify(res, skip) == ~skip /\ res.status = "ok" /\ res.pushed > 0

\* a syncNow that clears the indicator after every successful sync
ClearsUnsyncedAlways(lastChange, start) == TRUE

\* syncNow: `!this.lastLocalChangeTime || this.lastLocalChangeTime <= syncStartTime`
ClearsUnsynced(lastChange, start) == lastChange = NoTime \/ lastChange <= start

\* syncNow, from the settling of performSync: the indicator or the error,
\* the notification, and `finally { this.isSyncing = false }` when no
\* message is on its way.  (lastSyncTime and lastSuccessfulSyncTime, which
\* only the status line reads, are left out.)
syncNowSettle ==
  /\ pc = "done"
  /\ isSyncing
  /\ hasUnsyncedChanges' =
       IF result.status = "ok" /\ ClearsUnsynced(lastLocalChangeTime, syncStartTime)
         THEN FALSE ELSE hasUnsyncedChanges
  /\ superbasedError' =
       IF result.status = "error" /\ ErrorShown(skipNotify)
         THEN result.message ELSE superbasedError
  /\ IF ShouldNotify(result, skipNotify)
       THEN publishCall
       ELSE UNCHANGED <<lastPublishTime, sending>>
  /\ inFlight' = inFlight - 1
  /\ result' = NoResult
  /\ IF sending' # sending
       THEN /\ pc' = "notify"
            /\ UNCHANGED <<isSyncing, skipNotify, syncStartTime>>
       ELSE /\ pc' = "idle"
            /\ isSyncing' = FALSE
            /\ skipNotify' = FALSE
            /\ syncStartTime' = NoTime
  /\ UNCHANGED <<restVars, db, server, used, now, remoteData, queue, existing,
                 newRecordsAdded, recordsUpdated, recordsToPush, mergeLog,
                 updateVars, quiet, lastLocalChangeTime, lastSync, handler,
                 outbox, calls, subscribeVars>>

\* syncNow, after `await this.syncNotifier.publish()`
syncNowFinally ==
  /\ pc = "notify"
  /\ \A t \in Times : sending[t] = 0
  /\ pc' = "idle"
  /\ isSyncing' = FALSE
  /\ skipNotify' = FALSE
  /\ syncStartTime' = NoTime
  /\ UNCHANGED <<restVars, db, server, used, now, remoteData, queue, existing,
                 newRecordsAdded, recordsUpdated, recordsToPush, result,
                 mergeLog, updateVars, quiet, hasUnsyncedChanges,
                 lastLocalChangeTime, superbasedError, lastSync, inFlight,
                 handler, notifierVars>>

\* What another device writes while the page is open: well-formed payloads
\* (the others are the subject of Spec), written by a clock that is not
\* ahead of the remote's.
AppRemotePayloads == {Payload("json", RemoteFields, 0, 1)}

\* the remote's clock is behind this device's, or ahead of it
AppStamps == {1, MaxTime}

\* the patches of the page's edit handlers (field edits, state transitions)
AppUpdates == {[fields |-> f] : f \in Fields}

\* The SyncWatermark the session starts with was left by an earlier one
\* (setLastSyncTime is called by the upload and download handlers, never by
\* syncNow or performSync).
InitApp == InitStore /\ quiet = "off" /\ lastSync = 1

NextApp ==
  \/ \E id \in OneId, f \in Fields : addTodo(id, f)
  \/ \E id \in OneId, u \in AppUpdates : editTodo(id, u)
  \/ editTodoPut
  \/ afterMutation
  \/ Tick
  \/ \E id \in OneId, p \in AppRemotePayloads, stamp \in AppStamps : RemoteWrite(id, p, stamp)
  \/ onNotified
  \/ pollTimer
  \/ saveSuperBasedToken
  \/ FetchOk
  \/ FetchFail
  \/ MergeGet
  \/ MergePut
  \/ PushCollect
  \/ \E stamp \in AppStamps : PushOk(stamp)
  \/ PushFail
  \/ syncNowSettle
  \/ \E t \in Times : publishSend(t)
  \/ syncNowFinally

SpecApp == InitApp /\ [][NextApp]_vars

\* What the page's code does on its own, once it can: the steps of
\* performSync between two awaits of the table, the resumption of syncNow
\* and its finally block, and the notifier's publish (Promise.allSettled
\* over the relay pool).  A response of the remote is not among them:
\* request() awaits fetch(url, {method, headers, body}) with no abort signal
\* and no timer, so nothing in the code makes a pending call settle.
FairApp ==
  /\ WF_vars(MergeGet)
  /\ WF_vars(MergePut)
  /\ WF_vars(PushCollect)
  /\ WF_vars(syncNowSettle)
  /\ WF_vars(syncNowFinally)
  /\ WF_vars(\E t \in Times : publishSend(t))

SpecAppLive == InitApp /\ [][NextApp]_vars /\ FairApp

\* --------------------------------------- records with a foreign record_id

MalformedId == {"a1"}

WellFormedId == {"a2"}

\* performSync against a remote that holds a record with a malformed
\* record_id next to a todo of another device, and a local todo.
NextMalformed ==
  \/ \E id \in MalformedId, stamp \in AppStamps :
       RemoteWriteMalformed(id, Payload("json", RemoteFields, 0, 1), stamp)
  \/ \E id \in WellFormedId, p \in AppRemotePayloads, stamp \in AppStamps :
       RemoteWrite(id, p, stamp)
  \/ \E id \in WellFormedId, f \in Fields : createTodo(id, f) /\ UNCHANGED handler
  \/ \E id \in WellFormedId, f \in Fields : updateTodoField(id, f) /\ UNCHANGED handler
  \/ updateTodoPut /\ UNCHANGED handler
  \/ Tick
  \/ SyncStart
  \/ FetchOk
  \/ FetchFail
  \/ MergeGet
  \/ MergePut
  \/ PushCollect
  \/ \E stamp \in AppStamps : PushOk(stamp)
  \/ PushFail
  \/ SyncReturn

SpecMalformed == Init /\ [][NextMalformed]_vars

\* ------------------------- upload, download and background sync handlers

\* These handlers are followed through their guards, their flags, the remote
\* calls they make and the SyncWatermark; the records they move between the
\* table and the remote are not represented.
legacyRest ==
  UNCHANGED <<todos, deviceVars, serviceVars, moreVars, db, server, used, now,
              syncVars, updateVars, quiet, handler, isSyncing, skipNotify, syncStartTime,
              hasUnsyncedChanges, lastLocalChangeTime, superbasedError,
              inFlight, publishVars, delivered, handling, invoked>>

\* restartBackgroundSync calls that may be awaiting loadToken at once
MaxRestarts == 2

\* a guard that does not look at the background flag
backgroundSyncBusyStatusOnly(flag, status) == status # NoStatus

\* backgroundSync: `if (this.superbasedBackgroundSyncing) return;
\* if (this.superbasedSyncStatus) return;`
backgroundSyncBusy(flag, status) == flag \/ status # NoStatus

\* uploadChanges: the same two checks
uploadChangesBusy(flag, status) == flag \/ status # NoStatus

\* backgroundSync(fullSync), up to its first await
backgroundSync(fullSync) ==
  IF backgroundSyncBusy(superbasedBackgroundSyncing, superbasedSyncStatus)
    THEN UNCHANGED <<superbasedBackgroundSyncing, bpc, bfull, bsince>>
    ELSE /\ superbasedBackgroundSyncing' = TRUE
         /\ bpc' = "connect"
         /\ bfull' = fullSync
         /\ bsince' = NoTime

\* startBackgroundSync(): nothing when the notifier exists; else subscribe,
\* listen to visibilitychange, start the 1 s interval and the 2 s timer
StartBackground ==
  IF polling
    THEN UNCHANGED <<polling, subscriptions, onSyncNeeded, initialSync>>
    ELSE /\ polling' = TRUE
         /\ subscriptions' = subscriptions + 1
         /\ onSyncNeeded' = TRUE
         /\ initialSync' = TRUE

\* initBackgroundSync on startup, with a saved token
startBackgroundSync ==
  /\ ~polling
  /\ StartBackground
  /\ UNCHANGED <<superbasedSyncStatus, superbasedBackgroundSyncing, bpc, bfull,
                 bsince, mpc, upl, hidden, restarts, lastSync>>
  /\ legacyRest

\* the interval of _startPolling fires
superbasedPoll ==
  /\ polling
  /\ IF ~hidden /\ ~superbasedBackgroundSyncing
       THEN backgroundSync(FALSE)
       ELSE UNCHANGED <<superbasedBackgroundSyncing, bpc, bfull, bsince>>
  /\ UNCHANGED <<superbasedSyncStatus, mpc, upl, hidden, polling, restarts,
                 initialSync, lastSync, subscriptions, onSyncNeeded>>
  /\ legacyRest

\* the subscription's callback: this.backgroundSync()
superbasedNotified ==
  /\ subscriptions > 0
  /\ onSyncNeeded
  /\ backgroundSync(FALSE)
  /\ UNCHANGED <<superbasedSyncStatus, mpc, upl, hidden, polling, restarts,
                 initialSync, lastSync, subscriptions, onSyncNeeded>>
  /\ legacyRest

\* the 2 s timer of startBackgroundSync fires
initialBackgroundSync ==
  /\ initialSync
  /\ initialSync' = FALSE
  /\ backgroundSync(FALSE)
  /\ UNCHANGED <<superbasedSyncStatus, mpc, upl, hidden, polling, restarts,
                 lastSync, subscriptions, onSyncNeeded>>
  /\ legacyRest

\* visibilitychange: when the page is visible again, restartBackgroundSync()
\* (which stops the subscription and awaits loadToken) and
\* backgroundSync(true)
visibilityChange(h) ==
  /\ polling
  /\ h # hidden
  /\ hidden' = h
  /\ IF ~h
       THEN /\ restarts < MaxRestarts
            /\ restarts' = restarts + 1
            /\ subscriptions' = 0
            /\ onSyncNeeded' = FALSE
            /\ backgroundSync(TRUE)
       ELSE UNCHANGED <<restarts, subscriptions, onSyncNeeded,
                        superbasedBackgroundSyncing, bpc, bfull, bsince>>
  /\ UNCHANGED <<superbasedSyncStatus, mpc, upl, polling, initialSync, lastSync>>
  /\ legacyRest

\* restartBackgroundSync resumes: startSubscription
restartResume ==
  /\ restarts > 0
  /\ subscriptions < MaxSubs
  /\ restarts' = restarts - 1
  /\ subscriptions' = subscriptions + 1
  /\ onSyncNeeded' = TRUE
  /\ UNCHANGED <<superbasedSyncStatus, superbasedBackgroundSyncing, bpc, bfull,
                 bsince, mpc, upl, hidden, polling, initialSync, lastSync>>
  /\ legacyRest

\* backgroundSync: token loaded and client connected; the fetch is sent with
\* `since: fullSync ? undefined : getLastSyncTime(npub)`
backgroundConnected ==
  /\ bpc = "connect"
  /\ bpc' = "fetch"
  /\ bsince' = IF bfull THEN NoTime ELSE lastSync
  /\ UNCHANGED <<superbasedSyncStatus, superbasedBackgroundSyncing, bfull, mpc,
                 upl, hidden, polling, restarts, initialSync, lastSync,
                 subscriptions, onSyncNeeded>>
  /\ legacyRest

\* backgroundSync: the fetch has returned and the merge is done; with
\* something to upload, syncRecords is sent
backgroundFetched(upload) ==
  /\ bpc = "fetch"
  /\ bpc' = IF upload THEN "push" ELSE "finish"
  /\ UNCHANGED <<superbasedSyncStatus, superbasedBackgroundSyncing, bfull,
                 bsince, mpc, upl, hidden, polling, restarts, initialSync,
                 lastSync, subscriptions, onSyncNeeded>>
  /\ legacyRest

\* backgroundSync: syncRecords has returned
backgroundPushed ==
  /\ bpc = "push"
  /\ bpc' = "finish"
  /\ UNCHANGED <<superbasedSyncStatus, superbasedBackgroundSyncing, bfull,
                 bsince, mpc, upl, hidden, polling, restarts, initialSync,
                 lastSync, subscriptions, onSyncNeeded>>
  /\ legacyRest

\* backgroundSync: setLastSyncTime, disconnect, finally
backgroundFinish ==
  /\ bpc = "finish"
  /\ lastSync' = now
  /\ superbasedBackgroundSyncing' = FALSE
  /\ bpc' = "idle"
  /\ bfull' = FALSE
  /\ bsince' = NoTime
  /\ UNCHANGED <<superbasedSyncStatus, mpc, upl, hidden, polling, restarts,
                 initialSync, subscriptions, onSyncNeeded>>
  /\ legacyRest

\* backgroundSync: an await rejects; catch (log), finally
backgroundFail ==
  /\ bpc \in {"connect", "fetch", "push"}
  /\ superbasedBackgroundSyncing' = FALSE
  /\ bpc' = "idle"
  /\ bfull' = FALSE
  /\ bsince' = NoTime
  /\ UNCHANGED <<superbasedSyncStatus, mpc, upl, hidden, polling, restarts,
                 initialSync, lastSync, subscriptions, onSyncNeeded>>
  /\ legacyRest

\* syncToSuperbased / downloadFromSuperbased, up to the first await (one
\* manual sync at a time: the modal's buttons)
manualStart(kind) ==
  /\ mpc = "idle"
  /\ superbasedSyncStatus' = "connecting"
  /\ mpc' = IF kind = "upload" THEN "up-connect" ELSE "down-connect"
  /\ UNCHANGED <<superbasedBackgroundSyncing, bpc, bfull, bsince, upl, hidden,
                 polling, restarts, initialSync, lastSync, subscriptions,
                 onSyncNeeded>>
  /\ legacyRest

\* connected: 'uploading' (with no local todo: 'No todos to sync', status
\* null, return) or 'downloading'; the remote call is sent
manualConnected(empty) ==
  /\ mpc \in {"up-connect", "down-connect"}
  /\ IF mpc = "up-connect"
       THEN IF empty
              THEN superbasedSyncStatus' = NoStatus /\ mpc' = "idle"
              ELSE superbasedSyncStatus' = "uploading" /\ mpc' = "up-call"
       ELSE superbasedSyncStatus' = "downloading" /\ mpc' = "down-call"
  /\ UNCHANGED <<superbasedBackgroundSyncing, bpc, bfull, bsince, upl, hidden,
                 polling, restarts, initialSync, lastSync, subscriptions,
                 onSyncNeeded>>
  /\ legacyRest

\* downloadFromSuperbased: the fetch has returned: no records ('No records
\* found on server', status null, return), or 'merging'
manualFetched(empty) ==
  /\ mpc = "down-call"
  /\ IF empty
       THEN superbasedSyncStatus' = NoStatus /\ mpc' = "idle"
       ELSE superbasedSyncStatus' = "merging" /\ mpc' = "down-merge"
  /\ UNCHANGED <<superbasedBackgroundSyncing, bpc, bfull, bsince, upl, hidden,
                 polling, restarts, initialSync, lastSync, subscriptions,
                 onSyncNeeded>>
  /\ legacyRest

\* the upload has returned, or the download is merged: setLastSyncTime,
\* 'done', startBackgroundSync()
manualDone ==
  /\ mpc \in {"up-call", "down-merge"}
  /\ lastSync' = now
  /\ superbasedSyncStatus' = "done"
  /\ mpc' = "idle"
  /\ StartBackground
  /\ UNCHANGED <<superbasedBackgroundSyncing, bpc, bfull, bsince, upl, hidden,
                 restarts>>
  /\ legacyRest

\* an await of the manual sync rejects: 'error'
manualFail ==
  /\ mpc # "idle"
  /\ superbasedSyncStatus' = "error"
  /\ mpc' = "idle"
  /\ UNCHANGED <<superbasedBackgroundSyncing, bpc, bfull, bsince, upl, hidden,
                 polling, restarts, initialSync, lastSync, subscriptions,
                 onSyncNeeded>>
  /\ legacyRest

\* closeSuperBasedModal (openSuperBasedModal resets the status as well): the
\* status is cleared and this.superbasedClient is dropped, so a manual sync
\* that is still connecting fails at its next use of the client
closeSuperBasedModal ==
  /\ superbasedSyncStatus' = NoStatus
  /\ mpc' = IF mpc \in {"up-connect", "down-connect"} THEN "failing" ELSE mpc
  /\ UNCHANGED <<superbasedBackgroundSyncing, bpc, bfull, bsince, upl, hidden,
                 polling, restarts, initialSync, lastSync, subscriptions,
                 onSyncNeeded>>
  /\ legacyRest

\* uploadChanges (100 ms after a local change), up to its first await
uploadChanges ==
  /\ upl = "idle"
  /\ upl' = IF uploadChangesBusy(superbasedBackgroundSyncing, superbasedSyncStatus)
              THEN "idle" ELSE "connect"
  /\ UNCHANGED <<superbasedSyncStatus, superbasedBackgroundSyncing, bpc, bfull,
                 bsince, mpc, hidden, polling, restarts, initialSync, lastSync,
                 subscriptions, onSyncNeeded>>
  /\ legacyRest

\* uploadChanges: connected; with records, syncRecords is sent
uploadConnected(empty) ==
  /\ upl = "connect"
  /\ upl' = IF empty THEN "idle" ELSE "call"
  /\ UNCHANGED <<superbasedSyncStatus, superbasedBackgroundSyncing, bpc, bfull,
                 bsince, mpc, hidden, polling, restarts, initialSync, lastSync,
                 subscriptions, onSyncNeeded>>
  /\ legacyRest

\* uploadChanges: syncRecords has returned; publish, setLastSyncTime
uploadDone ==
  /\ upl = "call"
  /\ upl' = "idle"
  /\ lastSync' = now
  /\ UNCHANGED <<superbasedSyncStatus, superbasedBackgroundSyncing, bpc, bfull,
                 bsince, mpc, hidden, polling, restarts, initialSync,
                 subscriptions, onSyncNeeded>>
  /\ legacyRest

\* uploadChanges: an await rejects; catch (log)
uploadFail ==
  /\ upl \in {"connect", "call"}
  /\ upl' = "idle"
  /\ UNCHANGED <<superbasedSyncStatus, superbasedBackgroundSyncing, bpc, bfull,
                 bsince, mpc, hidden, polling, restarts, initialSync, lastSync,
                 subscriptions, onSyncNeeded>>
  /\ legacyRest

NextBackground ==
  \/ startBackgroundSync
  \/ superbasedPoll
  \/ superbasedNotified
  \/ initialBackgroundSync
  \/ \E h \in BOOLEAN : visibilityChange(h)
  \/ restartResume
  \/ backgroundConnected
  \/ \E upload \in BOOLEAN : backgroundFetched(upload)
  \/ backgroundPushed
  \/ backgroundFinish
  \/ backgroundFail
  \/ \E kind \in {"upload", "download"} : manualStart(kind)
  \/ \E empty \in BOOLEAN : manualConnected(empty)
  \/ \E empty \in BOOLEAN : manualFetched(empty)
  \/ manualDone
  \/ manualFail
  \/ closeSuperBasedModal
  \/ uploadChanges
  \/ \E empty \in BOOLEAN : uploadConnected(empty)
  \/ uploadDone
  \/ uploadFail
  \/ Tick

SpecBackground == Init /\ [][NextBackground]_vars

\* ------------------------------------------- the set-up of the connection

\* notifiers the page may have let go of with their subscription open
MaxOrphans == 2

\* callback invocations counted per notification
MaxInvoked == 3

\* checkSuperBasedConnection with a stored token and a session:
\* initSuperBasedClient -> initSyncNotifier (`this.syncNotifier = new
\* SyncNotifier(appNpub)`, init, startSubscription: the notifier that was
\* there is neither stopped nor destroyed), startAutoSync, syncNow(true)
checkSuperBasedConnection ==
  /\ orphans + subscriptions <= MaxOrphans
  /\ orphans' = orphans + subscriptions
  /\ subscriptions' = 1
  /\ onSyncNeeded' = TRUE
  /\ syncNow(TRUE)
  /\ UNCHANGED <<todos, deviceVars, serviceVars, legacyVars, peerDb, db, server,
                 used, now, updateVars, hasUnsyncedChanges, lastLocalChangeTime,
                 superbasedError, lastSync, handler, publishVars, delivered,
                 handling, invoked>>

\* disconnectSuperBased: stopAutoSync, `this.syncNotifier.destroy()`
disconnectSuperBased ==
  /\ subscriptions > 0
  /\ subscriptions' = 0
  /\ onSyncNeeded' = FALSE
  /\ UNCHANGED <<restVars, db, server, used, now, syncVars, updateVars, quiet,
                 appVars, handler, publishVars, delivered, handling, invoked>>

\* a notification of another device arrives: every open subscription hands
\* it to its notifier, whose callback calls syncNow(true)
notificationArrives ==
  /\ subscriptions + orphans > 0
  /\ invoked["good"] + subscriptions + orphans <= MaxInvoked
  /\ invoked' = [invoked EXCEPT !["good"] = @ + subscriptions + orphans]
  /\ syncNow(TRUE)
  /\ UNCHANGED <<restVars, db, server, used, now, updateVars, hasUnsyncedChanges,
                 lastLocalChangeTime, superbasedError, lastSync, handler,
                 publishVars, subscriptions, onSyncNeeded, delivered, handling>>

NextSetup ==
  \/ checkSuperBasedConnection
  \/ disconnectSuperBased
  \/ notificationArrives
  \/ FetchOk
  \/ FetchFail
  \/ PushCollect
  \/ syncNowSettle
  \/ Tick

SpecSetup == Init /\ [][NextSetup]_vars

\* --------------------------------- the store's updateTodo on any stored row

\* The rows come from the remote; updateTodo is called with the id of any
\* row of the table, also of one the list does not show (the placeholder of
\* an unreadable payload has deleted: 1).
NextDirect ==
  \/ \E id \in OneId, u \in Updates :
       db[id] # NoRow /\ updateTodoGet(id, u) /\ UNCHANGED handler
  \/ updateTodoPut /\ UNCHANGED handler
  \/ Tick
  \/ \E id \in OneId, p \in RemotePayloads, stamp \in Times : RemoteWrite(id, p, stamp)
  \/ SyncStart
  \/ FetchOk
  \/ FetchFail
  \/ MergeGet
  \/ MergePut
  \/ PushCollect
  \/ \E stamp \in Times : PushOk(stamp)
  \/ PushFail
  \/ SyncReturn

SpecDirect == Init /\ [][NextDirect]_vars

\* ------------------------------- one device, a remote that always answers

\* Local mutations and syncs of one connected device: no other device
\* writes, and no remote call fails.
NextAlone ==
  \/ \E id \in OneId, f \in Fields : createTodo(id, f) /\ UNCHANGED handler
  \/ \E id \in OneId, f \in Fields : updateTodoField(id, f) /\ UNCHANGED handler
  \/ \E id \in OneId : deleteTodo(id, FALSE) /\ UNCHANGED handler
  \/ updateTodoPut /\ UNCHANGED handler
  \/ Tick
  \/ SyncStart
  \/ FetchOk
  \/ MergeGet
  \/ MergePut
  \/ PushCollect
  \/ \E stamp \in Times : PushOk(stamp)
  \/ SyncReturn

\* The poll timer keeps starting syncs (startAutoSync), the remote answers
\* every call, and the steps of the code in between are taken.
FairAlone ==
  /\ WF_vars(SyncStart)
  /\ WF_vars(FetchOk)
  /\ WF_vars(MergeGet)
  /\ WF_vars(MergePut)
  /\ WF_vars(PushCollect)
  /\ WF_vars(\E stamp \in Times : PushOk(stamp))
  /\ WF_vars(SyncReturn)
  /\ WF_vars(updateTodoPut /\ UNCHANGED handler)

SpecAlone == Init /\ [][NextAlone]_vars /\ FairAlone

\* ----------------------------------------- two devices of the same owner

\* The owner's other device runs the same code with its own device id and
\* its own table.  Its updateTodo and its performSync are taken as single
\* steps: the runs of them that nothing interleaves with.

\* the merge pass's decision on the other device
peerMergeDecision(row, record) ==
  IF row = NoRow THEN "add"
  ELSE LET localServerTime == TimeOf(row.server_updated_at)
           remoteServerTime == TimeOf(record.updated_at)
       IN  IF record.device_id = OtherDeviceId
             THEN IF record.updated_at # NoTime /\ remoteServerTime > localServerTime
                    THEN "advance" ELSE "echo"
           ELSE IF remoteServerTime > localServerTime
                   /\ ~localHasPendingChanges(row, localServerTime)
             THEN "take"
           ELSE "skip"

\* its table after the merge pass over the fetched records
peerMerged(table, fetched) ==
  [id \in Ids |->
     IF fetched[id] # NoRecord /\ recordIdMatch(fetched[id])
       THEN MergeWrite(table, id, peerMergeDecision(table[id], fetched[id]),
                       fetched[id])[id]
       ELSE table[id]]

\* its push batch
peerPushBatch(table, fetched, t) ==
  [id \in Ids |->
     IF /\ table[id] # NoRow
        /\ table[id].owner = ownerNpub
        /\ ShouldPush(table[id], serverRecordsGet(fetched, id), t)
       THEN PushRecord(table[id].payload, OtherDeviceId, table[id].owner,
                       PushUpdatedAt(table[id].payload, t))
       ELSE NoRecord]

\* updateTodo on the other device (an edit or a soft delete of a listed todo)
peerEdit(id, updates) ==
  /\ peerDb[id] # NoRow
  /\ deserializeTodo(peerDb[id].payload).deleted = 0
  /\ peerDb' = [peerDb EXCEPT ![id] = updateTodoRow(peerDb[id], updates, now)]
  /\ UNCHANGED <<todos, deviceVars, serviceVars, legacyVars, orphans, db,
                 server, used, now, syncVars, updateVars, quiet, appVars,
                 notifierVars, handler>>

\* performSync on the other device, all remote calls succeeding: fetch,
\* merge pass, push pass; taken between the syncs of this device
peerSync(stamp) ==
  /\ pc = "idle"
  /\ stamp \in ServerStamps(server)
  /\ LET merged == peerMerged(peerDb, server)
         batch == peerPushBatch(merged, server, now)
     IN  /\ peerDb' = merged
         /\ server' = IF BatchIds(batch) = {} THEN server
                      ELSE serverSyncRecords(server, batch, stamp)
  /\ Disturb
  /\ UNCHANGED <<todos, deviceVars, serviceVars, legacyVars, orphans, db,
                 used, now, syncVars, updateVars, appVars, notifierVars,
                 handler>>

NextTwo ==
  \/ \E id \in OneId, f \in Fields : createTodo(id, f) /\ UNCHANGED handler
  \/ \E id \in OneId, f \in Fields : updateTodoField(id, f) /\ UNCHANGED handler
  \/ \E id \in OneId : deleteTodo(id, FALSE) /\ UNCHANGED handler
  \/ updateTodoPut /\ UNCHANGED handler
  \/ \E id \in OneId, u \in Updates : peerEdit(id, u)
  \/ Tick
  \/ SyncStart
  \/ FetchOk
  \/ MergeGet
  \/ MergePut
  \/ PushCollect
  \/ \E stamp \in Times : PushOk(stamp)
  \/ SyncReturn
  \/ \E stamp \in Times : peerSync(stamp)

\* Both devices keep completing syncs.  The other device's sync does not
\* wait for this device: it is placed between this device's syncs only in
\* the model, hence the strong fairness.
FairTwo ==
  /\ FairAlone
  /\ SF_vars(\E stamp \in Times : peerSync(stamp))

SpecTwo == Init /\ [][NextTwo]_vars /\ FairTwo

\* ---------------------------------------------------------- device identity

\* the values crypto.randomUUID() returns, in the order of the calls
MaxUUIDs == 3

UUID(n) == IF n = 1 THEN DeviceId ELSE IF n = 2 THEN "device-2" ELSE "device-3"

KeyOf(caller) == IF caller = "SyncNotifier" THEN NotifierDeviceIdKey ELSE DEVICE_ID_KEY

\* getDeviceId(), as called by `caller`: read the key; when it is not set,
\* generate an id and store it; return it.  No await: one step.
getDeviceId(caller) ==
  /\ LET key == KeyOf(caller)
     IN  IF localStorage[key] = NoItem
           THEN /\ generated < MaxUUIDs
                /\ generated' = generated + 1
                /\ localStorage' = [localStorage EXCEPT ![key] = UUID(generated + 1)]
                /\ deviceIdOf' = [deviceIdOf EXCEPT ![caller] = UUID(generated + 1)]
           ELSE /\ deviceIdOf' = [deviceIdOf EXCEPT ![caller] = localStorage[key]]
                /\ UNCHANGED <<localStorage, generated>>
  /\ UNCHANGED <<todos, serviceVars, legacyVars, moreVars, db, server, used, now, syncVars,
                 updateVars, quiet, appVars, notifierVars, handler>>

\* The installation: syncs and notifier constructions in any order, and the
\* notifier publishing.
NextDevice ==
  \/ \E c \in Callers : getDeviceId(c)
  \/ publish
  \/ \E t \in Times : publishSend(t)
  \/ Tick

SpecDevice == Init /\ [][NextDevice]_vars

\* ------------------------------------------------ the server-side service

TODO_STATES == {"new", "ready", "in_progress", "done"}

\* what a client may send as the state of a transition request
StateInputs == TODO_STATES \cup {"READY", "archived"}

OtherNpub == "npub1other"

Owners == {ownerNpub, OtherNpub}

\* ALLOWED_STATE_TRANSITIONS
ALLOWED_STATE_TRANSITIONS ==
  [current \in TODO_STATES |->
     CASE current = "new" -> {"ready"}
       [] current = "ready" -> {"in_progress", "done"}
       [] current = "in_progress" -> {"done"}
       [] current = "done" -> {"ready"}]

\* input.toLowerCase()
toLowerCase(input) == IF input = "READY" THEN "ready" ELSE input

\* normalizeState: the lower-cased input when it names a state, else "ready"
normalizeState(input) ==
  IF toLowerCase(input) \in TODO_STATES THEN toLowerCase(input) ELSE "ready"

\* ALLOWED_STATE_TRANSITIONS[current]?.includes(next) ?? false
isAllowedTransition(current, next) ==
  current \in TODO_STATES /\ next \in ALLOWED_STATE_TRANSITIONS[current]

SvcTodo(owner, state, deleted) == [owner |-> owner, state |-> state, deleted |-> deleted]

\* listTodos(owner).find(todo => todo.id === id): the row, when it is the
\* owner's and not deleted
svcFind(table, owner, id) ==
  IF table[id] # NoRow /\ table[id].owner = owner /\ table[id].deleted = 0
    THEN table[id] ELSE NoRow

svcUnchanged ==
  UNCHANGED <<todos, deviceVars, legacyVars, moreVars, db, server, used, now, syncVars,
              updateVars, quiet, appVars, notifierVars, handler>>

\* quickAddTodo(owner, title, tags): INSERT ... state 'new'
quickAddTodo(owner, id) ==
  /\ svcTodos[id] = NoRow
  /\ \A other \in SvcIds : other < id => svcTodos[other] # NoRow
  /\ svcTodos' = [svcTodos EXCEPT ![id] = SvcTodo(owner, "new", 0)]
  /\ UNCHANGED svcResult
  /\ svcUnchanged

\* removeTodo(owner, id): UPDATE todos SET deleted = 1 WHERE id and owner
removeTodo(owner, id) ==
  /\ svcTodos[id] # NoRow
  /\ svcTodos[id].owner = owner
  /\ svcTodos' = [svcTodos EXCEPT ![id].deleted = 1]
  /\ UNCHANGED svcResult
  /\ svcUnchanged

\* services/todos.ts transitionTodoState(owner, id, state)
svcTransitionTodoState(owner, id, state) ==
  /\ LET normalized == normalizeState(state)
         found == svcFind(svcTodos, owner, id)
     IN  IF found = NoRow \/ ~isAllowedTransition(found.state, normalized)
           THEN /\ svcResult' = [status |-> "null"]
                /\ UNCHANGED svcTodos
           ELSE /\ svcTodos' = [svcTodos EXCEPT ![id].state = normalized]
                /\ svcResult' = [status |-> "todo", id |-> id, state |-> normalized]
  /\ svcUnchanged

NextService ==
  \/ \E o \in Owners, id \in SvcIds : quickAddTodo(o, id)
  \/ \E o \in Owners, id \in SvcIds : removeTodo(o, id)
  \/ \E o \in Owners, id \in SvcIds, st \in StateInputs :
       svcTransitionTodoState(o, id, st)

SpecService == Init /\ [][NextService]_vars

\* ------------------------------------------------- the store, called directly

\* decryptTodo / deserializeTodo of a stored row: both catch what decoding
\* throws and return the placeholder
decryptTodo(payload) == deserializeTodo(payload)

\* a listing that does not filter
getTodosByOwnerUnfiltered(table, owner, includeDeleted) ==
  [id \in Ids |->
     IF table[id] # NoRow /\ table[id].owner = owner
       THEN decryptTodo(table[id].payload)
       ELSE NoRow]

\* getTodosByOwner(owner, includeDeleted): the rows of the owner, decoded;
\* `todos.filter(t => !t.deleted)` unless includeDeleted.  Nothing in it
\* throws for a payload.
getTodosByOwner(table, owner, includeDeleted) ==
  [id \in Ids |->
     IF /\ table[id] # NoRow
        /\ table[id].owner = owner
        /\ includeDeleted \/ decryptTodo(table[id].payload).deleted = 0
       THEN decryptTodo(table[id].payload)
       ELSE NoRow]

\* a caller awaits getTodosByOwner(owner, includeDeleted)
loadTodos(includeDeleted) ==
  /\ todos' = [includeDeleted |-> includeDeleted,
               list |-> getTodosByOwner(db, ownerNpub, includeDeleted)]
  /\ UNCHANGED <<deviceVars, serviceVars, legacyVars, moreVars, db, server, used, now, syncVars,
                 updateVars, quiet, appVars, notifierVars, handler>>

\* What earlier syncs may have left in the table: nothing, or the record of
\* another device as the merge pass stores it (RemoteRow), with a payload
\* that decodes or one that does not.
PulledPayloads == {Payload("json", RemoteFields, 0, 1), OpaquePayload}

PulledRecords ==
  {NoRecord} \cup {Record(p, 1, OtherDeviceId, ownerNpub) : p \in PulledPayloads}

InitPulled ==
  /\ server \in [Ids -> PulledRecords]
  /\ db = [id \in Ids |->
             IF server[id] = NoRecord THEN NoRow ELSE RemoteRow(server[id])]
  /\ used = {id \in Ids : server[id] # NoRecord}
  /\ InitRest
  /\ quiet = "off"
  /\ lastSync = NoTime

\* The store's functions called with any id and any patch, between syncs.
NextStore ==
  \/ \E id \in Ids, f \in Fields : createTodo(id, f) /\ UNCHANGED handler
  \/ \E id \in Ids, u \in Updates : updateTodoGet(id, u) /\ UNCHANGED handler
  \/ updateTodoPut /\ UNCHANGED handler
  \/ \E id \in Ids : deleteTodo(id, TRUE) /\ UNCHANGED handler
  \/ \E b \in BOOLEAN : loadTodos(b)
  \/ Tick

SpecStore == InitPulled /\ [][NextStore]_vars

\* ------------------------------------------------------------------ claims

\* the record the merge pass is acting on (pc = "put")
MergeId == Head(queue)

MergeRecord == remoteData[Head(queue)]

PayloadOf(table, id) == IF table[id] = NoRow THEN NoPayload ELSE table[id].payload

\* the row the merge pass read parses, and its updated_at is after its
\* server_updated_at
ReadHasPendingEdits ==
  /\ existing # NoRow
  /\ existing.payload # NoPayload
  /\ JsonParses(existing.payload)
  /\ existing.payload.updated_at > TimeOf(existing.server_updated_at)

\* the row the merge pass read does not parse
ReadIsUnreadable ==
  /\ existing # NoRow
  /\ existing.payload # NoPayload
  /\ ~JsonParses(existing.payload)

\* the last merge step left a row alone that the remote had a newer version
\* of, from another device, because the row had pending edits
SkippedForPendingEdits ==
  /\ mergeLog.kind = "skip"
  /\ mergeLog.pending
  /\ mergeLog.newer
  /\ remoteData[mergeLog.id].device_id # DeviceId

\* C1: a record that has pending local edits when the merge pass examines it
\* (its payload parses and its updated_at is strictly after its
\* server_updated_at) keeps its payload in that merge step, whatever
\* updated_at and device id the fetched record carries.
C1_PendingEditsKept ==
  [][MergePut /\ ReadHasPendingEdits
       => PayloadOf(db', MergeId) = PayloadOf(db, MergeId)]_vars

\* a merge step has skipped a newer remote record over a parsed, pending row
C1_Witness ==
  /\ pc = "collect"
  /\ mergeLog.kind = "skip"
  /\ mergeLog.parsed
  /\ mergeLog.pending
  /\ mergeLog.newer

C3_UnreadableIsPending ==
  [][MergePut /\ ReadIsUnreadable
       => /\ PayloadOf(db', MergeId) = PayloadOf(db, MergeId)
          /\ MergeRecord.device_id # DeviceId => db'[MergeId] = db[MergeId]]_vars

\* a merge step has skipped a newer record of another device over a row
\* whose payload does not parse
C3_Witness ==
  /\ pc = "collect"
  /\ SkippedForPendingEdits
  /\ ~mergeLog.parsed
  /\ db[mergeLog.id] # NoRow
  /\ ~JsonParses(db[mergeLog.id].payload)

\* Scenario A: the row read has updated_at = server_updated_at = T1 and the
\* fetched record comes from another device with updated_at = T2 > T1
ScenarioA ==
  /\ existing # NoRow
  /\ JsonParses(existing.payload)
  /\ existing.server_updated_at # NoTime
  /\ existing.payload.updated_at = existing.server_updated_at
  /\ MergeRecord.device_id # DeviceId
  /\ MergeRecord.updated_at > existing.server_updated_at
  /\ db[MergeId] = existing

\* C4: in Scenario A the merge step leaves a row whose payload decodes to
\* what the remote payload decodes to, whose server_updated_at is T2, and
\* counts one more updated record.
C4_RemoteTaken ==
  [][MergePut /\ ScenarioA
       => /\ db'[MergeId] # NoRow
          /\ deserializeTodo(db'[MergeId].payload)
               = deserializeTodo(MergeRecord.encrypted_data)
          /\ db'[MergeId].server_updated_at = MergeRecord.updated_at
          /\ recordsUpdated' = recordsUpdated + 1]_vars

\* C5: Scenario B: a row with updated_at = T3 after its server_updated_at
\* T1, and a fetched record of another device with updated_at = T2 > T1: the
\* merge step leaves the row as it is, and when T3 > T2 the push pass puts
\* the row's payload in the push batch.
C5_PendingEditPushed ==
  [][/\ MergePut /\ ReadHasPendingEdits /\ MergeRecord.device_id # DeviceId
          /\ MergeRecord.updated_at > TimeOf(existing.server_updated_at)
          => db'[MergeId] = db[MergeId]
     /\ PushCollect /\ SkippedForPendingEdits /\ mergeLog.parsed
          /\ db[mergeLog.id] # NoRow
          /\ JsonParses(db[mergeLog.id].payload)
          /\ db[mergeLog.id].payload.updated_at > remoteData[mergeLog.id].updated_at
          => /\ pc' = "push"
             /\ recordsToPush'[mergeLog.id] # NoRecord
             /\ recordsToPush'[mergeLog.id].encrypted_data = db[mergeLog.id].payload
             /\ db' = db]_vars

\* the push of a row is in flight that the merge pass had left alone for its
\* pending edits, T1 < T2 < T3
C5_Witness ==
  /\ pc = "push"
  /\ SkippedForPendingEdits
  /\ mergeLog.parsed
  /\ recordsToPush[mergeLog.id] # NoRecord
  /\ db[mergeLog.id] # NoRow
  /\ db[mergeLog.id].server_updated_at # NoTime
  /\ remoteData[mergeLog.id].updated_at > db[mergeLog.id].server_updated_at
  /\ recordsToPush[mergeLog.id].metadata_updated_at > remoteData[mergeLog.id].updated_at
  /\ recordsToPush[mergeLog.id].encrypted_data = db[mergeLog.id].payload

\* C6: Scenario C: for a fetched record with no local row the merge step
\* creates a row whose payload decodes to what the remote payload decodes
\* to, whose server_updated_at is the record's updated_at, and counts one
\* more pulled record.
C6_RemoteAdded ==
  [][MergePut /\ existing = NoRow /\ db[MergeId] = NoRow
       => /\ db'[MergeId] # NoRow
          /\ deserializeTodo(db'[MergeId].payload)
               = deserializeTodo(MergeRecord.encrypted_data)
          /\ db'[MergeId].server_updated_at = MergeRecord.updated_at
          /\ newRecordsAdded' = newRecordsAdded + 1]_vars

\* C7: idempotence: a performSync that follows a completed performSync, with
\* no local edit and no remote change since the first one began, returns
\* pulled = 0, updated = 0 and pushed = 0.
C7_SecondSyncIsNoop ==
  quiet = "done2" /\ pc = "done"
    => /\ result.status = "ok"
       /\ result.pulled = 0
       /\ result.updated = 0
       /\ result.pushed = 0

\* C8: round trip: a record this device has pushed, fetched where there is
\* no row for it, is stored with exactly the payload that was pushed (the
\* pull path's sanitizePayload leaves it as it is), and decodes to the same
\* todo.
C8_RoundTrip ==
  [][MergePut /\ existing = NoRow /\ db[MergeId] = NoRow
       /\ MergeRecord.device_id = DeviceId
       => /\ db'[MergeId] # NoRow
          /\ db'[MergeId].payload = MergeRecord.encrypted_data
          /\ deserializeTodo(db'[MergeId].payload)
               = deserializeTodo(MergeRecord.encrypted_data)]_vars

\* a todo created here and pushed has been fetched with no row for it and
\* stored
C8_Witness ==
  /\ pc = "collect"
  /\ mergeLog.kind = "add"
  /\ remoteData[mergeLog.id].device_id = DeviceId
  /\ db[mergeLog.id] # NoRow
  /\ db[mergeLog.id].payload.fields \in Fields
  /\ db[mergeLog.id].payload = remoteData[mergeLog.id].encrypted_data

\* C9: echo: for a fetched record that carries this device's id and has a
\* local row, the merge step never changes the payload; it sets the row's
\* server_updated_at to the record's updated_at when that is strictly after
\* the watermark it read, and otherwise changes nothing.
C9_EchoKeepsPayload ==
  [][MergePut /\ existing # NoRow /\ MergeRecord.device_id = DeviceId
       => /\ PayloadOf(db', MergeId) = PayloadOf(db, MergeId)
          /\ IF MergeRecord.updated_at > TimeOf(existing.server_updated_at)
               THEN db[MergeId] # NoRow =>
                      db'[MergeId] =
                        [db[MergeId] EXCEPT !.server_updated_at = MergeRecord.updated_at]
               ELSE db' = db]_vars

\* the echo of an earlier push has advanced the watermark of a row that was
\* edited after that push, and the edit is still there
C9_Witness ==
  /\ pc = "collect"
  /\ mergeLog.kind = "advance"
  /\ db[mergeLog.id] # NoRow
  /\ db[mergeLog.id].server_updated_at = remoteData[mergeLog.id].updated_at
  /\ db[mergeLog.id].payload # remoteData[mergeLog.id].encrypted_data
  /\ db[mergeLog.id].payload.updated_at > db[mergeLog.id].server_updated_at

\* C10: the push step of performSync (building the batch, sending it, the
\* remote storing it or failing) changes no local row, neither a
\* server_updated_at nor any other field: a step that changes a row is not a
\* step of the push.
C10_PushWritesNoRow ==
  [][db' # db
       => ~(PushCollect \/ (\E stamp \in Times : PushOk(stamp)) \/ PushFail)]_vars

\* a push has completed and the pushed row has no watermark yet
C10_Witness ==
  /\ pc = "done"
  /\ result.status = "ok"
  /\ result.pushed > 0
  /\ \E id \in Ids :
       /\ db[id] # NoRow
       /\ server[id] # NoRecord
       /\ server[id].encrypted_data = db[id].payload
       /\ server[id].device_id = DeviceId
       /\ db[id].server_updated_at = NoTime

\* C11: push selection: the push pass puts a local row of the owner in the
\* batch if and only if the fetched map has no record for its id or the
\* updated_at its payload decodes to is strictly after the fetched record's
\* updated_at; a batch record carries the row's payload, this device's id
\* and the payload's own updated_at; the batch is sent only when non-empty.
C11_PushSelection ==
  [][PushCollect
       => LET batch == PushBatch(db, remoteData, now)
          IN  /\ \A id \in Ids :
                   batch[id] # NoRecord
                     <=> /\ db[id] # NoRow
                         /\ db[id].owner = ownerNpub
                         /\ \/ remoteData[id] = NoRecord
                            \/ /\ JsonParses(db[id].payload)
                               /\ db[id].payload.updated_at > remoteData[id].updated_at
              /\ \A id \in Ids :
                   batch[id] # NoRecord
                     => /\ batch[id].encrypted_data = db[id].payload
                        /\ batch[id].device_id = DeviceId
                        /\ JsonParses(db[id].payload)
                        /\ batch[id].metadata_updated_at = db[id].payload.updated_at
              /\ (pc' = "push") <=> (BatchIds(batch) # {})
              /\ pc' = "push" => recordsToPush' = batch]_vars

\* C12: ties favour the local row: a fetched record of another device whose
\* updated_at equals the watermark of the row read does not replace the
\* payload; a parsed row whose updated_at equals its watermark is not
\* pending, so a strictly newer record of another device replaces it; and a
\* parsed row whose updated_at equals the fetched updated_at is not pushed.
C12_TiesFavourLocal ==
  [][/\ MergePut /\ existing # NoRow
          /\ MergeRecord.updated_at = TimeOf(existing.server_updated_at)
          => db' = db
     /\ MergePut /\ existing # NoRow /\ JsonParses(existing.payload)
          /\ existing.payload.updated_at = TimeOf(existing.server_updated_at)
          /\ MergeRecord.device_id # DeviceId
          /\ MergeRecord.updated_at > TimeOf(existing.server_updated_at)
          => db'[MergeId] = RemoteRow(MergeRecord)
     /\ PushCollect
          => \A id \in Ids :
               /\ db[id] # NoRow
               /\ remoteData[id] # NoRecord
               /\ JsonParses(db[id].payload)
               /\ db[id].payload.updated_at = remoteData[id].updated_at
               => /\ recordsToPush'[id] = NoRecord
                  /\ db'[id] = db[id]]_vars

\* a sync has returned without pushing a row whose updated_at equals the
\* fetched updated_at, after a merge step that met a record whose updated_at
\* equals the row's watermark
C12_Witness ==
  /\ pc = "done"
  /\ result.status = "ok"
  /\ result.pushed = 0
  /\ result.pulled = 0
  /\ result.updated = 0
  /\ \E id \in Ids :
       /\ db[id] # NoRow
       /\ server[id] # NoRecord
       /\ server[id].device_id # DeviceId
       /\ JsonParses(db[id].payload)
       /\ db[id].payload.updated_at = server[id].updated_at
       /\ db[id].server_updated_at = server[id].updated_at

\* messages with payload timestamp t that were sent or are being sent
Msgs(t) == outbox[t] + sending[t]

\* t2 is inside the debounce window that opens at t1
InWindow(t1, t2) == t1 <= t2 /\ DateNow(t2) - DateNow(t1) < DEBOUNCE_MS

RECURSIVE MsgsIn(_)
MsgsIn(S) ==
  IF S = {} THEN 0
  ELSE LET t == CHOOSE x \in S : TRUE IN Msgs(t) + MsgsIn(S \ {t})

\* publish was called at t1 and again at t2, inside the window of t1
CalledTwice(t1, t2) ==
  /\ InWindow(t1, t2)
  /\ calls[t1] >= 1
  /\ calls[t2] >= 1
  /\ t1 = t2 => calls[t1] >= 2

\* no message opened a window that t1 is inside of
WindowFree(t1) == \A t0 \in Times : t0 < t1 /\ InWindow(t0, t1) => Msgs(t0) = 0

C20_NotifierFiltering ==
  [][\A e \in Events :
       /\ invoked'[e] # invoked[e] => handling'[e] = handling[e] - 1
       /\ handling'[e] = handling[e] - 1
            => invoked'[e] =
                 invoked[e] + (IF e = "good" /\ onSyncNeeded THEN 1 ELSE 0)
       /\ invoked'[e] <= delivered'[e]]_vars

\* with one subscription live, all four kinds of event were delivered and
\* handled: the callback ran once, for the event of the other device
C20_Witness ==
  /\ subscriptions = 1
  /\ \A e \in Events : delivered[e] = 1 /\ handling[e] = 0
  /\ invoked = [e \in Events |-> IF e = "good" THEN 1 ELSE 0]

\* C13: mutual exclusion of syncs: a performSync call starts only when none
\* is in flight and isSyncing is false, so at most one is in flight; a
\* syncNow call that finds isSyncing true starts nothing and replaces nothing
\* of the running call, and the end of a sync starts no further one.
C13_OneSyncAtATime ==
  [][/\ inFlight' <= 1
     /\ inFlight' > inFlight => ~isSyncing /\ pc = "idle" /\ inFlight = 0
     /\ isSyncing /\ isSyncing'
          => skipNotify' = skipNotify /\ syncStartTime' = syncStartTime
     /\ isSyncing /\ ~isSyncing' => pc' = "idle" /\ inFlight' = 0
     /\ pc' # "idle" => isSyncing']_vars

\* a mutation handler has reached its syncNow test while a sync was in
\* flight: the change is later than the start of the one sync that runs
C13_Witness ==
  /\ isSyncing
  /\ inFlight = 1
  /\ pc = "push"
  /\ handler = "none"
  /\ hasUnsyncedChanges
  /\ lastLocalChangeTime > syncStartTime

\* C14: a failed fetch ends performSync with an error for its caller and
\* changes no row, no watermark, no SyncWatermark and nothing on the remote;
\* the caller's handling of the error changes none of them either.
C14_FetchFailureHasNoEffect ==
  [][/\ FetchFail
          => /\ db' = db
             /\ server' = server
             /\ lastSync' = lastSync
             /\ recordsToPush' = recordsToPush
             /\ pc' = "done"
             /\ result'.status = "error"
     /\ pc = "done" /\ result.status = "error" /\ syncNowSettle
          => /\ db' = db
             /\ server' = server
             /\ lastSync' = lastSync
             /\ pc' = "idle"]_vars

\* the fetch of a sync has failed with a local row waiting to be pushed
C14_Witness ==
  /\ pc = "done"
  /\ result.status = "error"
  /\ result.call = "fetchRecords"
  /\ hasUnsyncedChanges
  /\ \E id \in Ids : db[id] # NoRow /\ server[id] = NoRecord

\* C15: a failed push ends performSync with an error for its caller and no
\* pushed count, writes no row (what the merge pass wrote stays), and the
\* caller publishes no notification.
C15_PushFailureKeepsMerge ==
  [][/\ PushFail
          => /\ db' = db
             /\ server' = server
             /\ pc' = "done"
             /\ result'.status = "error"
             /\ "pushed" \notin DOMAIN result'
     /\ pc = "done" /\ result.status = "error" /\ syncNowSettle
          => /\ db' = db
             /\ lastPublishTime' = lastPublishTime
             /\ sending' = sending
             /\ outbox' = outbox
             /\ pc' = "idle"]_vars

\* the push of a sync started by the user's action has failed; the row has
\* the watermark a merge pass gave it
C15_Witness ==
  /\ pc = "done"
  /\ result.status = "error"
  /\ result.call = "syncRecords"
  /\ ~skipNotify
  /\ \E id \in Ids : db[id] # NoRow /\ db[id].server_updated_at # NoTime

C17_WatermarkAdvanced ==
  [][pc = "done" /\ syncNowSettle
       => lastSync' = IF result.status = "ok" THEN now ELSE lastSync]_vars

\* C18: the fetch of a sync started by the poll timer or by a notification
\* (syncNow(true)) returns only records changed since the SyncWatermark.
C18_BackgroundFetchIsIncremental ==
  [][pc = "fetch" /\ skipNotify /\ lastSync # NoTime /\ FetchOk
       => \A id \in Ids :
            remoteData'[id] # NoRecord => remoteData'[id].updated_at > lastSync]_vars

\* C29: when updateTodo and the merge pass of a sync write the same record in
\* overlapping calls, the server_updated_at the merge pass has set is not
\* lost: updateTodo's put leaves the row's server_updated_at as the row holds
\* it at that moment.
C29_UpdateIsAtomic ==
  [][updateTodoPut /\ db[uargs.id] # NoRow
       => db'[uargs.id].server_updated_at = db[uargs.id].server_updated_at]_vars

\* C23: updateTodo (an edit, a state transition, a soft delete) called with an
\* id for which the table holds no row throws 'Todo not found' to its caller
\* and writes nothing: the table is as it was and the call is over.
C23_UpdateOfUnknownIdFails ==
  [][\A id \in Ids :
       /\ db[id] = NoRow
       /\ upc = "idle"
       /\ \E u \in Updates : updateTodoGet(id, u)
       => /\ storeError' = "Todo not found"
          /\ db' = db
          /\ upc' = "idle"]_vars

\* a soft delete of an unknown id has thrown while the table holds another row
C23_Witness ==
  /\ storeError = "Todo not found"
  /\ upc = "idle"
  /\ uargs # NoRow
  /\ uargs.updates = [deleted |-> 1]
  /\ db[uargs.id] = NoRow
  /\ \E id \in Ids : db[id] # NoRow

\* the payload of a row decodes (as it is, or sanitized)
Decodes(payload) ==
  payload = NoPayload \/ JsonParses(payload) \/ JsonParses(sanitizePayload(payload))

\* C22: getTodosByOwner returns a list whatever the payloads are.  A row
\* whose payload cannot be decoded is in the list only with includeDeleted,
\* as the placeholder (placeholder title, deleted: 1); every other row of the
\* owner is returned with the fields, deleted flag and updated_at its payload
\* carries (unless it is deleted and includeDeleted is not set).
C22_ListingSurvivesBadPayload ==
  [][\A b \in BOOLEAN :
       loadTodos(b) =>
         /\ DOMAIN todos'.list = Ids
         /\ \A id \in Ids :
              LET row == db[id]
                  listed == todos'.list[id]
              IN  CASE row = NoRow -> listed = NoRow
                    [] ~Decodes(row.payload) ->
                         IF b THEN /\ listed # NoRow
                                   /\ listed.fields = PlaceholderFields
                                   /\ listed.deleted = 1
                              ELSE listed = NoRow
                    [] row.payload = NoPayload -> listed # NoRow
                    [] OTHER ->
                         IF b \/ row.payload.deleted = 0
                           THEN listed = [fields |-> row.payload.fields,
                                          deleted |-> row.payload.deleted,
                                          updated_at |-> row.payload.updated_at]
                           ELSE listed = NoRow]_vars

\* the default listing has returned a todo and has hidden a row whose payload
\* does not decode
C22_Witness ==
  /\ todos # NoTodos
  /\ ~todos.includeDeleted
  /\ \E bad \in Ids, good \in Ids :
       /\ db[bad] # NoRow
       /\ ~Decodes(db[bad].payload)
       /\ todos.list[bad] = NoRow
       /\ db[good] # NoRow
       /\ todos.list[good] # NoRow
       /\ todos.list[good].fields = db[good].payload.fields

\* C26: a soft delete keeps the row: its put writes the row with deleted set,
\* updated_at at the current time and the server_updated_at the call read. A
\* soft-deleted row is listed only with includeDeleted.  A row leaves the
\* table only in a hard delete.
C26_SoftDeleteKeepsRecord ==
  [][/\ (upc = "put" /\ uargs.updates = [deleted |-> 1] /\ updateTodoPut)
          => /\ db'[uargs.id] # NoRow
             /\ JsonParses(db'[uargs.id].payload)
             /\ db'[uargs.id].payload.deleted = 1
             /\ db'[uargs.id].payload.updated_at = now
             /\ db'[uargs.id].server_updated_at = existingStored.server_updated_at
     /\ \A id \in Ids :
          db[id] # NoRow /\ db'[id] = NoRow => deleteTodo(id, TRUE)
     /\ \A b \in BOOLEAN :
          loadTodos(b) =>
            \A id \in Ids :
              (/\ db[id] # NoRow
               /\ JsonParses(db[id].payload)
               /\ db[id].payload.deleted = 1)
                => (todos'.list[id] # NoRow <=> b)]_vars

\* a pulled record has been soft-deleted at a later time: it is still in the
\* table with its server_updated_at, and the default listing does not show it
C26_Witness ==
  /\ todos # NoTodos
  /\ ~todos.includeDeleted
  /\ upc = "idle"
  /\ \E id \in Ids :
       /\ db[id] # NoRow
       /\ JsonParses(db[id].payload)
       /\ db[id].payload.fields = RemoteFields
       /\ db[id].payload.deleted = 1
       /\ db[id].payload.updated_at > 1
       /\ db[id].server_updated_at = 1
       /\ todos.list[id] = NoRow

\* a fetched record in the slot of `id` has a record_id that is not todo_<id>
FetchedMalformed(id) ==
  remoteData[id] # NoRecord /\ ~IsTodoRecordId(remoteData[id])

C25_OneDeviceId ==
  /\ generated <= 1
  /\ \A c \in Callers :
       deviceIdOf[c] # NoItem => deviceIdOf[c] = localStorage[DEVICE_ID_KEY]
  /\ \A c1 \in Callers, c2 \in Callers :
       deviceIdOf[c1] # NoItem /\ deviceIdOf[c2] # NoItem
         => deviceIdOf[c1] = deviceIdOf[c2]
  /\ generated = 0 <=> localStorage[DEVICE_ID_KEY] = NoItem
  /\ generated > 0 => localStorage[DEVICE_ID_KEY] = DeviceId

\* the sync engine and the notifier have both asked for the device id
C25_Witness ==
  /\ generated = 1
  /\ deviceIdOf["performSync"] = DeviceId
  /\ deviceIdOf["SyncNotifier"] = DeviceId
  /\ \E t \in Times : calls[t] > 0

C30_SyncEnds == isSyncing ~> ~isSyncing

\* a manual sync is between its start and its end, and has not lost its
\* client
ManualInFlight ==
  mpc \in {"up-connect", "up-call", "down-connect", "down-call", "down-merge"}

\* a background trigger starts backgroundSync or uploadChanges, which go on
\* to their remote calls
BackgroundStarts ==
  \/ bpc = "idle" /\ bpc' = "connect"
  \/ upl = "idle" /\ upl' = "connect"

\* C27: while a manual sync (syncToSuperbased / downloadFromSuperbased) or a
\* background sync is in flight, no background trigger (poll, notification,
\* visibility, the 2 s timer, uploadChanges after a local change) starts a
\* sync of its own: it returns before any remote call.
C27_BackgroundYieldsToManual ==
  [][(ManualInFlight \/ superbasedBackgroundSyncing) => ~BackgroundStarts]_vars

\* the triggers that call backgroundSync
BackgroundTrigger ==
  \/ superbasedPoll
  \/ superbasedNotified
  \/ initialBackgroundSync
  \/ visibilityChange(FALSE)

C40_ManualSyncDoesNotStarve ==
  (polling /\ ~hidden /\ mpc = "idle" /\ bpc = "idle"
     /\ ~superbasedBackgroundSyncing)
    => ENABLED (superbasedPoll /\ bpc' = "connect")

\* C31: a local edit that is written between the merge pass's read of a
\* record (db.todos.get) and its write is kept: when the merge pass comes
\* to write and the row's payload is no longer the one it read, it does not
\* replace that payload.
C31_EditDuringMergeKept ==
  [][MergePut =>
       LET id == Head(queue)
       IN  (/\ existing # NoRow
            /\ db[id] # NoRow
            /\ db[id].payload # existing.payload)
             => (db'[id] # NoRow /\ db'[id].payload = db[id].payload)]_vars

\* C32: right after updateTodo has written a record, the merge pass's
\* pending-edits check classifies it as pending: the new updated_at is
\* greater than the row's server_updated_at, whatever timestamp the remote
\* assigned.
C32_UpdateMakesPending ==
  [][updateTodoPut =>
       LET row == db'[uargs.id]
       IN  localHasPendingChanges(row, TimeOf(row.server_updated_at))]_vars

C37_OneSubscription == subscriptions + orphans <= 1

\* C35: the server_updated_at of a record never goes back: no step of
\* updateTodo, of a soft delete or of performSync replaces it by an older
\* one or removes it, as long as the record is in the table.
C35_WatermarkMonotonic ==
  [][\A id \in Ids :
       (db[id] # NoRow /\ db'[id] # NoRow /\ db[id].server_updated_at # NoTime)
         => /\ db'[id].server_updated_at # NoTime
            /\ db'[id].server_updated_at >= db[id].server_updated_at]_vars

\* C38: deleteTodo(id, hard = true) removes the local row and nothing else:
\* the remote keeps its record (no step ever removes a remote record). A
\* later performSync fetches that record, finds no row for it and creates
\* the row again from the remote record, counting it in `pulled`.
C38_HardDeleteIsLocal ==
  [][/\ \A id \in Ids :
          /\ (db[id] # NoRow /\ deleteTodo(id, TRUE)) =>
               (db'[id] = NoRow /\ server' = server)
          /\ server[id] # NoRecord => server'[id] # NoRecord
     /\ FetchOk =>
          \A id \in Ids :
            (server[id] # NoRecord /\ IsTodoRecordId(server[id]))
              => (remoteData'[id] = server[id]
                    /\ \E i \in 1..Len(queue') : queue'[i] = id)
     /\ (MergePut /\ existing = NoRow /\ db[Head(queue)] = NoRow) =>
          /\ db'[Head(queue)] = RemoteRow(remoteData[Head(queue)])
          /\ newRecordsAdded' = newRecordsAdded + 1]_vars

\* a record this device had pushed, and whose row it then removed, is in
\* the table again: the merge pass has just added it from the remote
C38_Witness ==
  /\ mergeLog # NoLog
  /\ mergeLog.kind = "add"
  /\ server[mergeLog.id] # NoRecord
  /\ server[mergeLog.id].device_id = DeviceId
  /\ db[mergeLog.id] # NoRow
  /\ db[mergeLog.id].server_updated_at = server[mergeLog.id].updated_at
  /\ newRecordsAdded = 1

\* the payload updateTodo writes over one it could not decode: the
\* placeholder's fields with the patch applied, and the time of the call
PlaceholderPatched(updates, t) ==
  Payload("json",
          IF "fields" \in DOMAIN updates THEN updates.fields ELSE PlaceholderFields,
          1, t)

\* the row of `id` carries the placeholder that updateTodo has written
HoldsPlaceholder(id) ==
  /\ db[id] # NoRow
  /\ db[id].payload # NoPayload
  /\ JsonParses(db[id].payload)
  /\ db[id].payload.fields = PlaceholderFields

\* updateTodo accepts a row whose payload does not decode and writes the
\* patched placeholder over it
UnreadableIsOverwritten ==
  /\ \A id \in Ids, u \in Updates :
       (db[id] # NoRow /\ ~Decodes(db[id].payload) /\ updateTodoGet(id, u))
         => (storeError' = NoError /\ upc' = "put")
  /\ (updateTodoPut /\ ~Decodes(existingStored.payload)) =>
       /\ db'[uargs.id].payload = PlaceholderPatched(uargs.updates, now)
       /\ db'[uargs.id].server_updated_at = existingStored.server_updated_at

\* C39: updateTodo on a row whose payload cannot be decoded
\* does not fail; it replaces the payload by the placeholder's fields
\* (deleted = 1) with the patch and a fresh updated_at; the row then counts
\* as a pending local edit, and the next push pass sends it.
C39_UnreadableUpdatePushed ==
  [][/\ UnreadableIsOverwritten
     /\ (updateTodoPut /\ ~Decodes(existingStored.payload)) =>
          localHasPendingChanges(db'[uargs.id],
                                 TimeOf(db'[uargs.id].server_updated_at))
     /\ PushCollect =>
          \A id \in Ids :
            HoldsPlaceholder(id) =>
              /\ recordsToPush'[id] # NoRecord
              /\ recordsToPush'[id].encrypted_data = db[id].payload]_vars

\* What holds of such an update on every step: the row counts as pending
\* exactly when the time of the update is after the row's
\* server_updated_at, and the push pass sends it exactly when that time is
\* after the updated_at of the fetched remote record (or the remote has no
\* record of it).
UnreadableUpdatePushedIfLater ==
  [][/\ UnreadableIsOverwritten
     /\ (updateTodoPut /\ ~Decodes(existingStored.payload)) =>
          (localHasPendingChanges(db'[uargs.id],
                                  TimeOf(db'[uargs.id].server_updated_at))
             <=> now > TimeOf(existingStored.server_updated_at))
     /\ PushCollect =>
          \A id \in Ids :
            HoldsPlaceholder(id) =>
              IF \/ remoteData[id] = NoRecord
                 \/ db[id].payload.updated_at > TimeOf(remoteData[id].updated_at)
                THEN /\ recordsToPush'[id] # NoRecord
                     /\ recordsToPush'[id].encrypted_data = db[id].payload
                ELSE /\ pc' = "push" => recordsToPush'[id] = NoRecord]_vars

\* the placeholder written by updateTodo is on its way to the remote, which
\* still holds the payload that could not be decoded
UnreadableUpdateInFlight ==
  /\ pc = "push"
  /\ \E id \in Ids :
       /\ HoldsPlaceholder(id)
       /\ db[id].payload.deleted = 1
       /\ recordsToPush[id] # NoRecord
       /\ recordsToPush[id].encrypted_data = db[id].payload
       /\ server[id] # NoRecord
       /\ ~Decodes(server[id].encrypted_data)

\* the remote holds the payload of the local row of `id`
RemoteHoldsLocal(id) ==
  /\ server[id] # NoRecord
  /\ server[id].encrypted_data = db[id].payload

\* C33: on a device whose syncs keep completing, with no other device
\* writing, the remote eventually holds, and keeps holding, the payload of
\* the latest local create, update or soft delete of every record.
C33_EditsEventuallyPushed ==
  <>[](\A id \in Ids : db[id] # NoRow => RemoteHoldsLocal(id))

\* a step in which one of the two devices edits
DeviceEdits ==
  \/ used' # used
  \/ upc' # upc
  \/ \E id \in OneId, u \in Updates : peerEdit(id, u)

\* both devices hold, for every record, the payload the remote holds
Converged ==
  \A id \in Ids :
    (db[id] # NoRow \/ peerDb[id] # NoRow \/ server[id] # NoRecord)
      => /\ server[id] # NoRecord
         /\ db[id] # NoRow
         /\ peerDb[id] # NoRow
         /\ db[id].payload = server[id].encrypted_data
         /\ peerDb[id].payload = server[id].encrypted_data

\* C34: when the two devices stop editing and both keep completing syncs,
\* they end up holding, for every record, the payload the remote holds.
C34_DevicesConverge == <>[][~DeviceEdits]_vars => <>[]Converged

====
